---- MODULE Spec2Model ----
(***************************************************************************)
(* Model of the ephemeral test-instance lifecycle orchestrator:            *)
(*   src/miscellaneous/create-new-test-instance.py  (provisioning)         *)
(*   src/miscellaneous/destroy-test-instance.py     (decommissioning)      *)
(*                                                                         *)
(* Text files are modelled as strings (TLC treats a string as the sequence *)
(* of its characters), so the textual operations of the source (substring  *)
(* search, splitlines, strip, join) are computed character by character.   *)
(***************************************************************************)
EXTENDS Integers, Sequences, FiniteSets, TLC

VARIABLES
    kind,            \* which script runs: "create" | "destroy"; "unit" = direct calls
    prefix,          \* args.prefix
    ci,              \* args.ci or bool(os.environ.get("CI"))
    debug,           \* DEBUG_MODE
    token,           \* os.environ.get("CLOUDFLARE_API_TOKEN")
    email,           \* get_env("EMAIL", DEFAULT_EMAIL)
    tm_env,          \* os.environ.get("TERRAMATE_CLOUD_PATH")
    branch_env,      \* os.environ.get("ANSIBLE_CFG_BRANCH")
    fs,              \* which paths exist: the two workspaces, the stack, main.tf
    fs_start,        \* the same, as the run found them when it started
    inventory_file,  \* text of <ansible_config_root>/inventory.yml
    emails_file,     \* content of <ansible_config_root>/group_vars/all/emails.yml
    ans_head,        \* the two files as committed at HEAD of the ansible workspace
    ans_index,       \* the two files as staged in its index
    ans_commits,     \* number of commit objects created in the ansible workspace
    ans_base,        \* the remote branch as the ansible workspace last got it
    remote,          \* branch simple of the configuration-management remote:
                     \* its commits, oldest first
    other,           \* a second run against the same remote, as far as that
                     \* remote sees it: its clone and its push
    tm_repo,         \* the stack directory as the terramate repository holds
                     \* it: in the workspace's index, at its HEAD, and on
                     \* branch main of the remote
    pc,              \* position in main() or in the function it called
    visited,         \* the pipeline states entered so far, in order
    cmds,            \* every external command invoked so far, in order
    log_state,       \* the run's temporary log file: "none" | "open" | "closed"
    prompts,         \* number of confirmation prompts answered
    exited,          \* whether the process has exited
    exit_status,     \* its exit status (meaningful once exited)
    inv_removed,     \* remove_host: inventory_removed
    em_removed,      \* remove_host: emails_removed
    remove_result,   \* what the last remove_host call returned
    summary,         \* result lines printed by dimmed_timed_step
    play,            \* what shutil.which("play") returned, once it was asked
    entry,           \* the files, HEAD and command count when the running
                     \* InventoryManager call was entered
    calls            \* one record per InventoryManager call that returned

inputs == <<kind, prefix, ci, debug, token, email, tm_env, branch_env, fs_start>>
files  == <<inventory_file, emails_file>>
ans_git == <<ans_head, ans_index, ans_commits, ans_base, remote, other>>
git    == <<ans_git, tm_repo>>
locals == <<inv_removed, em_removed, remove_result>>
proc   == <<log_state, exited, exit_status>>
hist   == <<entry, calls>>

vars == <<inputs, fs, files, git, pc, visited, cmds, prompts, proc, locals,
          summary, play, hist>>

-----------------------------------------------------------------------------
(* Bounds of the model *)

MaxRc == 1          \* exit codes of an external command range over 0..MaxRc
MaxCalls == 2       \* unit driver: number of InventoryManager calls in a row

ExitCodes == 0..MaxRc

-----------------------------------------------------------------------------
(* Python string operations *)

Char(s, i) == SubSeq(s, i, i)

\* pat in s
Contains(s, pat) ==
    \E i \in 1..(Len(s) - Len(pat) + 1) : SubSeq(s, i, i + Len(pat) - 1) = pat

IsSpace(c) == c \in {" ", "\n", "\t"}

RECURSIVE LStrip(_)
LStrip(s) == IF s # "" /\ IsSpace(Head(s)) THEN LStrip(Tail(s)) ELSE s

RECURSIVE RStrip(_)
RStrip(s) ==
    IF s # "" /\ IsSpace(Char(s, Len(s))) THEN RStrip(SubSeq(s, 1, Len(s) - 1)) ELSE s

Strip(s) == RStrip(LStrip(s))

\* index of the first "\n" of s, or 0
RECURSIVE NewlineAt(_, _)
NewlineAt(s, i) ==
    IF i > Len(s) THEN 0 ELSE IF Char(s, i) = "\n" THEN i ELSE NewlineAt(s, i + 1)

\* s.splitlines(keepends=True)
RECURSIVE SplitLines(_)
SplitLines(s) ==
    IF s = "" THEN << >>
    ELSE LET n == NewlineAt(s, 1)
         IN  IF n = 0 THEN << s >>
             ELSE << SubSeq(s, 1, n) >> \o SplitLines(SubSeq(s, n + 1, Len(s)))

\* ''.join(lines)
RECURSIVE Join(_)
Join(lines) == IF lines = << >> THEN "" ELSE Head(lines) \o Join(Tail(lines))

\* ' ' * n
RECURSIVE Spaces(_)
Spaces(n) == IF n <= 0 THEN "" ELSE " " \o Spaces(n - 1)

\* sequence a is the beginning of sequence b
IsPrefixOf(a, b) == Len(a) <= Len(b) /\ SubSeq(b, 1, Len(a)) = a

\* str.isalnum(): non-empty and every character a letter or a digit
AlnumChars == {"a", "b", "c", "x", "0", "1"}
IsAlnum(s) == s # "" /\ \A i \in 1..Len(s) : Char(s, i) \in AlnumChars

\* s.replace(c, '')
RECURSIVE RemoveChar(_, _)
RemoveChar(s, c) ==
    IF s = "" THEN ""
    ELSE IF Head(s) = c THEN RemoveChar(Tail(s), c)
         ELSE Char(s, 1) \o RemoveChar(Tail(s), c)

-----------------------------------------------------------------------------
(* Hostname and paths *)

FIXED_DOMAIN == ".aopstest.com"

\* full_hostname = f"{prefix}.aopstest.com"
FullHostname(p) == p \o FIXED_DOMAIN

\* mutant: only the characters are checked, not that a letter or digit is there
PrefixValidCharsOnly(p) ==
    LET q == RemoveChar(RemoveChar(p, "_"), "-")
    IN  \A i \in 1..Len(q) : Char(q, i) \in AlnumChars

\* destroy main(): prefix.replace('_', '').replace('-', '').isalnum()
PrefixValid(p) == IsAlnum(RemoveChar(RemoveChar(p, "_"), "-"))

\* mutant: the required flag is not honoured
EnvMissingNever(val) == FALSE

\* get_env(var, required=True): exits when the value is missing or empty
NoValue == "<unset>"
EnvMissing(val) == val = NoValue \/ val = ""

-----------------------------------------------------------------------------
(* create: InventoryManager.add_host_to_inventory / add_email_for_host *)

\* len(line) - len(line.lstrip()) + 2
InsertIndent(line) == Len(line) - Len(LStrip(line)) + 2

\* the for loop of add_host_to_inventory over lines[i..], with its flag
RECURSIVE AddHostLoop(_, _, _, _)
AddHostLoop(lines, i, inserted, h) ==
    IF i > Len(lines) THEN << >>
    ELSE LET line == lines[i]
             hit  == ~inserted /\ Strip(line) = "hosts:"
         IN  (IF hit THEN << line, Spaces(InsertIndent(line)) \o h \o ":\n" >>
                     ELSE << line >>)
             \o AddHostLoop(lines, i + 1, inserted \/ hit, h)

\* mutant: a file without a "hosts:" line gets one appended, with the host
AddHostOrAppend(text, h) ==
    LET out == Join(AddHostLoop(SplitLines(text), 1, FALSE, h))
    IN  IF out = text THEN text \o "hosts:\n  " \o h \o ":\n" ELSE out

AddHostToInventory(text, h) == Join(AddHostLoop(SplitLines(text), 1, FALSE, h))

\* mutant: the insertion is made without testing for the hostname first
EnsureInventoryAlways(text, h) == AddHostToInventory(text, h)

\* ensure_host lines 275-277: raw substring test, then the insertion
EnsureInventory(text, h) ==
    IF ~Contains(text, h \o ":") THEN AddHostToInventory(text, h) ELSE text

\* code point order of the characters that occur in mapping keys
OrdTable == "!-.01@_abcdefghijklmnopqrstuvwxyz"

RECURSIVE RankFrom(_, _)
RankFrom(c, i) ==
    IF i > Len(OrdTable) THEN 0 ELSE IF Char(OrdTable, i) = c THEN i ELSE RankFrom(c, i + 1)

Rank(c) == RankFrom(c, 1)

\* a < b as Python compares str
RECURSIVE StrLess(_, _)
StrLess(a, b) ==
    IF b = "" THEN FALSE
    ELSE IF a = "" THEN TRUE
    ELSE IF Head(a) = Head(b) THEN StrLess(Tail(a), Tail(b))
    ELSE Rank(Char(a, 1)) < Rank(Char(b, 1))

\* insertion of one entry into a key-sorted sequence of entries
RECURSIVE InsertSorted(_, _)
InsertSorted(entries, e) ==
    IF entries = << >> THEN << e >>
    ELSE IF StrLess(e.host, Head(entries).host) THEN << e >> \o entries
    ELSE << Head(entries) >> \o InsertSorted(Tail(entries), e)

RECURSIVE SortEntries(_)
SortEntries(entries) ==
    IF entries = << >> THEN << >>
    ELSE InsertSorted(SortEntries(Tail(entries)), Head(entries))

HasEntry(entries, h) == \E i \in 1..Len(entries) : entries[i].host = h

\* yaml.safe_dump(emails, f): mapping keys are written sorted
SafeDump(entries) ==
    [empty |-> FALSE, he_kind |-> "map", host_emails |-> SortEntries(entries)]

\* yaml.safe_load gives None for an empty file; `in None` raises TypeError
AddEmailRaises(ef) == ef.empty \/ ef.he_kind = "null"

\* mutant: the entry is (re)written whether or not the host has one
AddEmailForHostOverwrite(ef, h, e) ==
    LET cur  == IF ef.he_kind = "map" THEN ef.host_emails ELSE << >>
        rest == SelectSeq(cur, LAMBDA x : x.host # h)
    IN  SafeDump(Append(rest, [host |-> h, email |-> e]))

\* mutant: the file is dumped again whether or not an entry was added
AddEmailForHostRewrites(ef, h, e) ==
    LET cur == IF ef.he_kind = "map" THEN ef.host_emails ELSE << >>
    IN  IF ~HasEntry(cur, h)
        THEN SafeDump(Append(cur, [host |-> h, email |-> e]))
        ELSE SafeDump(cur)

\* add_email_for_host: the file after the call (when it does not raise)
AddEmailForHost(ef, h, e) ==
    LET cur == IF ef.he_kind = "map" THEN ef.host_emails ELSE << >>
    IN  IF ~HasEntry(cur, h)
        THEN SafeDump(Append(cur, [host |-> h, email |-> e]))
        ELSE ef

-----------------------------------------------------------------------------
(* destroy: the yq queries and in-place deletions of InventoryManager *)

LineIndent(line) == Len(line) - Len(LStrip(line))

\* index of the first ":" of s, or 0
RECURSIVE ColonAt(_, _)
ColonAt(s, i) ==
    IF i > Len(s) THEN 0 ELSE IF Char(s, i) = ":" THEN i ELSE ColonAt(s, i + 1)

\* the mapping key written on a line, and what follows its colon
LineKey(line) ==
    LET t == Strip(line)
        n == ColonAt(t, 1)
    IN  IF n = 0 THEN t ELSE SubSeq(t, 1, n - 1)

LineValue(line) ==
    LET t == Strip(line)
        n == ColonAt(t, 1)
    IN  IF n = 0 THEN "" ELSE Strip(SubSeq(t, n + 1, Len(t)))

\* the line that holds the mapping a line is nested in, or 0 at top level
RECURSIVE ParentFrom(_, _, _)
ParentFrom(lines, i, j) ==
    IF j = 0 THEN 0
    ELSE IF LineIndent(lines[j]) < LineIndent(lines[i]) THEN j
    ELSE ParentFrom(lines, i, j - 1)

Parent(lines, i) == ParentFrom(lines, i, i - 1)

RECURSIVE Depth(_, _)
Depth(lines, i) ==
    IF Parent(lines, i) = 0 THEN 0 ELSE 1 + Depth(lines, Parent(lines, i))

\* line i is a key of the mapping .all.hosts
UnderAllHosts(lines, i) ==
    LET p == Parent(lines, i)
        g == IF p = 0 THEN 0 ELSE Parent(lines, p)
    IN  /\ p # 0 /\ g # 0
        /\ LineKey(lines[p]) = "hosts" /\ LineValue(lines[p]) = ""
        /\ LineKey(lines[g]) = "all" /\ Parent(lines, g) = 0

HostLines(lines, h) ==
    {i \in 1..Len(lines) : LineKey(lines[i]) = h /\ UnderAllHosts(lines, i)}

\* yq eval '.all.hosts | has("<h>")' inventory.yml prints true
YqHasHost(text, h) == HostLines(SplitLines(text), h) # {}

\* the lines nested under line i follow it with a larger indentation
RECURSIVE SubtreeEnd(_, _, _)
SubtreeEnd(lines, i, j) ==
    IF j > Len(lines) \/ LineIndent(lines[j]) <= LineIndent(lines[i]) THEN j - 1
    ELSE SubtreeEnd(lines, i, j + 1)

HasChild(lines, p) ==
    \E j \in 1..Len(lines) : Parent(lines, j) = p

\* yq writes the document back with two spaces per nesting level; the
\* mapping that lost its last key (line `emptied`, 0 if none) is written as {}
RECURSIVE YqEmit(_, _, _)
YqEmit(lines, emptied, i) ==
    IF i > Len(lines) THEN << >>
    ELSE LET line == lines[i]
             body == IF i = emptied THEN LineKey(line) \o ": {}" ELSE Strip(line)
         IN  << Spaces(2 * Depth(lines, i)) \o body \o "\n" >>
             \o YqEmit(lines, emptied, i + 1)

\* yq eval 'del(.all.hosts."<h>")' -i inventory.yml
YqDelHost(text, h) ==
    LET lines == SplitLines(text)
        hits  == HostLines(lines, h)
    IN  IF hits = {} THEN text
        ELSE LET i    == CHOOSE k \in hits : \A m \in hits : k <= m
                 p    == Parent(lines, i)
                 last == SubtreeEnd(lines, i, i + 1)
                 kept == SubSeq(lines, 1, i - 1) \o SubSeq(lines, last + 1, Len(lines))
             IN  Join(YqEmit(kept, IF HasChild(kept, p) THEN 0 ELSE p, 1))

\* yq eval '.host_emails | has("<h>")' emails.yml prints true
YqHasEmail(ef, h) == ~ef.empty /\ ef.he_kind = "map" /\ HasEntry(ef.host_emails, h)

\* yq eval 'del(.host_emails."<h>")' -i emails.yml keeps the order of the rest
YqDelEmail(ef, h) ==
    [ef EXCEPT !.host_emails =
        SelectSeq(ef.host_emails, LAMBDA e : e.host # h)]

-----------------------------------------------------------------------------
(* Inputs of a run *)

DEFAULT_EMAIL == "devops@artofproblemsolving.com"

\* args.prefix: any string; the destroy script's validation has more cases
Prefixes == {"a", "b_-", "a!", "_-"}
CreatePrefixes == {"a", "/x"}

Tokens == {NoValue, "", "tok"}

\* content of a main.tf that is missing / that an earlier run or a person wrote
Absent == "<absent>"
EarlierMainTf == "module \"instance\" { prefix = \"earlier\" }\n"

\* the stack directory and its main.tf live in the terramate repository;
\* main_tf is the text of the file
FsStates ==
    {f \in [tm : BOOLEAN, ans : BOOLEAN, stack : BOOLEAN,
            main_tf : {Absent, EarlierMainTf},
            inv : BOOLEAN, em : BOOLEAN] : f.main_tf # Absent => f.stack}

OtherHost == "zz" \o FIXED_DOMAIN

InvWithout == "all:\n  hosts:\n    " \o OtherHost \o ":\n"
\* a host list without any "hosts:" line
InvNoHosts == "all:\n  children:\n    web:\n"
InvWith(h) == "all:\n  hosts:\n    " \o h \o ":\n    " \o OtherHost \o ":\n"

EmailsWithout ==
    [empty |-> FALSE, he_kind |-> "map",
     host_emails |-> << [host |-> OtherHost, email |-> "z@x.com"] >>]
EmailsWith(h) ==
    [empty |-> FALSE, he_kind |-> "map",
     host_emails |-> << [host |-> OtherHost, email |-> "z@x.com"],
                        [host |-> h, email |-> "old@x.com"] >>]

hostname == FullHostname(prefix)

DEFAULT_ANSIBLE_CFG_BRANCH == "simple"

\* get_env("ANSIBLE_CFG_BRANCH", DEFAULT_ANSIBLE_CFG_BRANCH): the default
\* stands in only for a variable that is not set
ansible_cfg_branch ==
    IF branch_env = NoValue THEN DEFAULT_ANSIBLE_CFG_BRANCH ELSE branch_env

\* a commit, named by the run that made it (0: the history before the runs)
Commit(r, n) == [run |-> r, n |-> n]

History0 == << Commit(0, 1) >>

\* no second run
NoOther == [pc |-> "off", base |-> << >>, first |-> FALSE]

\* ci = args.ci or bool(os.environ.get("CI"))
CiMode(flag, env) == flag \/ (env # NoValue /\ env # "")

\* uuid.uuid4().hex[:8]: a fresh value, so the default workspace path names
\* no existing directory; a workspace that exists was named by the environment
unique_id == "0a1b2c3d"

TmEnvPath == "/srv/terramate-cloud"

\* Path(os.environ.get("TERRAMATE_CLOUD_PATH") or f"/tmp/terramate-cloud-{prefix}-{unique_id}")
terramate_cloud_path ==
    IF tm_env # NoValue /\ tm_env # "" THEN tm_env
    ELSE "/tmp/terramate-cloud-" \o prefix \o "-" \o unique_id

\* pathlib: a / b; an absolute right operand replaces the left one
PathJoin(a, b) ==
    IF b # "" /\ Head(b) = "/" THEN b ELSE a \o "/" \o b

DEFAULT_STACK_ACCOUNT_PATH == "stacks/accounts/aops_dev.487718497406"

\* base_path = terramate_cloud_path / DEFAULT_STACK_ACCOUNT_PATH
\* stack_path = base_path / full_hostname
stack_path ==
    PathJoin(PathJoin(terramate_cloud_path, DEFAULT_STACK_ACCOUNT_PATH), hostname)

\* index of the first "/" of s, or 0
SlashAt(s) ==
    LET hits == {i \in 1..Len(s) : Char(s, i) = "/"}
    IN  IF hits = {} THEN 0 ELSE CHOOSE i \in hits : \A j \in hits : i <= j

\* the names a path is made of; empty names (repeated slashes) name nothing
RECURSIVE Components(_)
Components(path) ==
    IF path = "" THEN << >>
    ELSE LET n == SlashAt(path)
         IN  IF n = 0 THEN << path >>
             ELSE (IF n = 1 THEN << >> ELSE << SubSeq(path, 1, n - 1) >>)
                  \o Components(SubSeq(path, n + 1, Len(path)))

\* the directory a relative path names for a process started in cwd
Resolve(cwd, rel) == Components(cwd) \o Components(rel)

\* the stack directory in the terramate workspace: whether it is there, and
\* the text of its main.tf
StackTree == [stack |-> fs.stack, main_tf |-> fs.main_tf]

stage == visited[Len(visited)]

Working == [inv |-> inventory_file, em |-> emails_file]

\* what a call of ensure_host or remove_host finds when it is entered;
\* listed / mapped: the host is a key of .all.hosts / of .host_emails
AtEntry ==
    [inv |-> inventory_file, em |-> emails_file, head |-> ans_head,
     index |-> ans_index, commits |-> ans_commits, at |-> Len(cmds),
     listed |-> YqHasHost(inventory_file, hostname),
     mapped |-> YqHasEmail(emails_file, hostname)]

\* what it leaves when it returns
AtReturn(op) ==
    [op |-> op, entry |-> entry, inv |-> inventory_file, em |-> emails_file,
     commits |-> ans_commits, upto |-> Len(cmds),
     listed |-> YqHasHost(inventory_file, hostname),
     mapped |-> YqHasEmail(emails_file, hostname)]

\* the state in which main() starts, with a second run as given and
\* ANSIBLE_CFG_BRANCH drawn from the given values
Start(o, branches) ==
    /\ kind \in {"create", "destroy"}
    /\ branch_env \in branches
    /\ prefix \in (IF kind = "create" THEN CreatePrefixes ELSE Prefixes)
    /\ ci \in {CiMode(flag, env) : flag \in BOOLEAN, env \in {NoValue, "", "true"}}
    /\ debug \in BOOLEAN
    /\ token \in (IF kind = "destroy" THEN Tokens ELSE {NoValue})
    /\ email = DEFAULT_EMAIL
    /\ fs \in {f \in FsStates : f.inv /\ f.em}
    /\ fs_start = fs
    /\ tm_env = (IF fs.tm THEN TmEnvPath ELSE NoValue)
    /\ inventory_file \in {InvWithout, InvWith(FullHostname(prefix))}
                            \cup (IF kind = "create" THEN {InvNoHosts} ELSE {})
    /\ emails_file \in (CASE inventory_file = InvWithout ->
                                {EmailsWithout, EmailsWith(FullHostname(prefix))}
                          [] inventory_file = InvNoHosts -> {EmailsWithout}
                          [] OTHER -> {EmailsWith(FullHostname(prefix))})
    /\ ans_head = [inv |-> inventory_file, em |-> emails_file]
    /\ ans_index = ans_head
    /\ ans_commits = 0
    /\ remote = History0
    /\ ans_base = (IF fs.ans THEN remote ELSE << >>)
    /\ other = o
    /\ tm_repo = [index |-> StackTree, head |-> StackTree, remote |-> StackTree]
    /\ pc = "main"
    /\ visited = << "INIT" >>
    /\ cmds = << >>
    /\ log_state = "none"
    /\ prompts = 0
    /\ exited = FALSE
    /\ exit_status = 0
    /\ inv_removed = FALSE
    /\ em_removed = FALSE
    /\ remove_result = "unset"
    /\ summary = << >>
    /\ play = "unset"
    /\ entry = AtEntry
    /\ calls = << >>

Init == Start(NoOther, {NoValue})

-----------------------------------------------------------------------------
(* run(): one external command *)

\* mutant: the exit code is never turned into an exception
RaisesNever(check, rc) == FALSE

\* mutant: check=False is not honoured
RaisesUnchecked(check, rc) == rc # 0

\* run() lines 118-119: a non-zero exit raises unless check=False
Raises(check, rc) == check /\ rc # 0

\* the record of one invocation; its output reaches the log only when the
\* caller passed log_file, the file is open and the run is not in debug mode
Cmd(name, arg, rc, check, log_file) ==
    [name |-> name, arg |-> arg, rc |-> rc, check |-> check,
     logged |-> log_file /\ log_state = "open" /\ ~debug, stage |-> stage]

\* run(cmd, check=check, log_file=log_file): the command is invoked, and the
\* caller goes on at `next` unless run() raised
Run(name, arg, check, rc, next) ==
    /\ cmds' = Append(cmds, Cmd(name, arg, rc, check, TRUE))
    /\ pc' = IF Raises(check, rc) THEN "except" ELSE next

-----------------------------------------------------------------------------
(* main(): start-up *)

\* mutant: the log file is created in debug mode too
OpenLogAlways == "open"

\* tempfile.NamedTemporaryFile(...) if not DEBUG_MODE else None
OpenLog == IF debug THEN "none" ELSE "open"

\* create main() lines 300-322: no validation; log file; step header 1
MainCreate ==
    /\ kind = "create" /\ pc = "main"
    /\ log_state' = OpenLog
    /\ visited' = Append(visited, "CLONE_REPOS")
    /\ pc' = "clone_tm"
    /\ UNCHANGED <<inputs, fs, files, git, cmds, prompts, exited, exit_status,
                   locals, summary, play, hist>>

\* destroy main() lines 276-303: prefix validation, required token, log file
MainDestroy ==
    /\ kind = "destroy" /\ pc = "main"
    /\ IF ~PrefixValid(prefix) \/ EnvMissing(token)
       THEN /\ visited' = Append(visited, "FAILED")
            /\ exited' = TRUE
            /\ exit_status' = 1
            /\ pc' = "exited"
            /\ UNCHANGED log_state
       ELSE /\ log_state' = OpenLog
            /\ visited' = Append(visited, "CLONE_REPOS")
            /\ pc' = "clone_tm"
            /\ UNCHANGED <<exited, exit_status>>
    /\ UNCHANGED <<inputs, fs, files, git, cmds, prompts, locals, summary, play, hist>>

-----------------------------------------------------------------------------
(* stage 1 of both scripts: the two workspaces *)

\* mutant: the workspace is cloned whether or not its path exists
NeedsCloneAlways(exists) == TRUE

\* if not <path>.exists(): an existing path is taken as already prepared
NeedsClone(exists) == ~exists

\* if not terramate_cloud_path.exists(): clone_terramate_repo(...)
CloneTerramate ==
    /\ pc = "clone_tm"
    /\ IF ~NeedsClone(fs.tm) THEN pc' = "clone_ans" /\ UNCHANGED <<cmds, fs>>
       ELSE \E rc \in ExitCodes :
              /\ Run("git clone", "terramate-cloud", TRUE, rc, "clone_ans")
              /\ fs' = IF rc = 0 THEN [fs EXCEPT !.tm = TRUE] ELSE fs
    /\ UNCHANGED <<inputs, files, git, visited, prompts, proc, locals, summary, play, hist>>

\* if not ansible_config_root.exists(): clone_ansible_repo(...), first command
CloneAnsible ==
    /\ pc = "clone_ans"
    /\ IF ~NeedsClone(fs.ans) THEN pc' = "prompt1" /\ UNCHANGED <<cmds, fs>>
       ELSE \E rc \in ExitCodes :
              /\ Run("git clone", "ansible-cfg", TRUE, rc, "checkout_ans")
              /\ fs' = IF rc = 0 THEN [fs EXCEPT !.ans = TRUE] ELSE fs
    /\ ans_base' = IF pc' = "checkout_ans" THEN remote ELSE ans_base
    /\ UNCHANGED <<inputs, files, ans_head, ans_index, ans_commits, remote, other,
                   tm_repo,
                   visited, prompts, proc, locals, summary, play, hist>>

\* clone_ansible_repo, second command: git checkout <branch>
CheckoutAnsible ==
    /\ pc = "checkout_ans"
    /\ \E rc \in ExitCodes : Run("git checkout", ansible_cfg_branch, TRUE, rc, "prompt1")
    /\ UNCHANGED <<inputs, fs, files, git, visited, prompts, proc, locals, summary, play, hist>>

-----------------------------------------------------------------------------
(* between the stages *)

PromptPcs == {"prompt1", "prompt2", "prompt3", "prompt4"}

AfterPrompt(p) ==
    CASE p = "prompt1" -> "hdr2"
      [] p = "prompt2" -> "hdr3"
      [] p = "prompt3" -> "hdr4"
      [] p = "prompt4" -> "hdr5"

\* mutant: the prompt is shown in CI mode as well
PromptToContinueAlways ==
    /\ pc \in PromptPcs
    /\ prompts' = prompts + 1
    /\ pc' = AfterPrompt(pc)
    /\ UNCHANGED <<inputs, fs, files, git, visited, cmds, proc, locals, summary, play, hist>>

\* prompt_to_continue(ci): waits for the user only when not in CI mode
PromptToContinue ==
    /\ pc \in PromptPcs
    /\ prompts' = IF ci THEN prompts ELSE prompts + 1
    /\ pc' = AfterPrompt(pc)
    /\ UNCHANGED <<inputs, fs, files, git, visited, cmds, proc, locals, summary, play, hist>>

HeaderPcs == {"hdr2", "hdr3", "hdr4", "hdr5"}

\* mutant: the third and fourth provisioning stages change places
HeaderStageSwapped(k, p) ==
    IF k = "create"
    THEN CASE p = "hdr2" -> "STACK_CREATE_APPLY"
           [] p = "hdr3" -> "CONFIG_MANAGEMENT_RUN"
           [] p = "hdr4" -> "INVENTORY_UPDATE"
           [] p = "hdr5" -> "DATA_BOOTSTRAP"
    ELSE CASE p = "hdr2" -> "STACK_DESTROY"
           [] p = "hdr3" -> "INVENTORY_CLEANUP"

\* the stage a step header announces, and the first step of that stage
HeaderStage(k, p) ==
    IF k = "create"
    THEN CASE p = "hdr2" -> "STACK_CREATE_APPLY"
           [] p = "hdr3" -> "INVENTORY_UPDATE"
           [] p = "hdr4" -> "CONFIG_MANAGEMENT_RUN"
           [] p = "hdr5" -> "DATA_BOOTSTRAP"
    ELSE CASE p = "hdr2" -> "STACK_DESTROY"
           [] p = "hdr3" -> "INVENTORY_CLEANUP"

HeaderFirst(k, p) ==
    IF k = "create"
    THEN CASE p = "hdr2" -> "c_tm_create"
           [] p = "hdr3" -> "ensure_files"
           [] p = "hdr4" -> "c_playbook1"
           [] p = "hdr5" -> "c_import"
    ELSE CASE p = "hdr2" -> "d_stack_check"
           [] p = "hdr3" -> "rm_inv"

\* print_step_header(n, ...): the next numbered stage begins
PrintStepHeader ==
    /\ pc \in HeaderPcs
    /\ visited' = Append(visited, HeaderStage(kind, pc))
    /\ pc' = HeaderFirst(kind, pc)
    /\ UNCHANGED <<inputs, fs, files, git, cmds, prompts, proc, locals, summary, play, hist>>

-----------------------------------------------------------------------------
(* git in the ansible workspace: add, commit (advisory), push *)

\* run(["git", "add", inventory_file, emails_file], ...)
AnsGitAdd(next) ==
    \E rc \in ExitCodes :
      /\ Run("git add", "inventory.yml emails.yml", TRUE, rc, next)
      /\ ans_index' = IF rc = 0 THEN Working ELSE ans_index
      /\ UNCHANGED <<ans_head, ans_commits, ans_base, remote, other, tm_repo>>

\* run(["git", "commit", "-m", ...], check=False, ...): git records a commit
\* only when the index differs from HEAD, and exits non-zero otherwise
AnsGitCommit(next) ==
    \E rc \in ExitCodes :
      /\ ans_index = ans_head => rc # 0
      /\ Run("git commit", "ansible-cfg", FALSE, rc, next)
      /\ ans_head' = IF rc = 0 THEN ans_index ELSE ans_head
      /\ ans_commits' = IF rc = 0 THEN ans_commits + 1 ELSE ans_commits
      /\ UNCHANGED <<ans_index, ans_base, remote, other, tm_repo>>

\* the branch of the ansible workspace: what it got from the remote, then
\* the commits made in it
LocalBranch == ans_base \o [i \in 1..ans_commits |-> Commit(1, i)]

\* the branch the pushes name
PUSH_BRANCH == "simple"

\* the workspace's branch simple: the checked-out branch with the commits
\* made in it when that is the branch the clone stage checked out (or the
\* workspace was there already), else as it came from the remote
PushedBranch ==
    IF fs_start.ans \/ ansible_cfg_branch = PUSH_BRANCH THEN LocalBranch ELSE ans_base

\* a push without --force is accepted only as a fast-forward: the remote
\* branch must be the beginning of the pushed one
PushRejected(branch) == ~IsPrefixOf(remote, branch)

\* mutant: the push is forced, the remote branch becomes the local one
AnsGitPushForce(next) ==
    \E rc \in ExitCodes :
      /\ Run("git push", "origin " \o PUSH_BRANCH, TRUE, rc, next)
      /\ remote' = IF rc = 0 THEN PushedBranch ELSE remote
      /\ UNCHANGED <<ans_head, ans_index, ans_commits, ans_base, other, tm_repo>>

\* run(["git", "push", "origin", "simple"], ...): no pull or fetch precedes
\* it, and it is not retried
AnsGitPush(next) ==
    \E rc \in ExitCodes :
      /\ PushRejected(PushedBranch) => rc # 0
      /\ Run("git push", "origin " \o PUSH_BRANCH, TRUE, rc, next)
      /\ remote' = IF rc = 0 THEN PushedBranch ELSE remote
      /\ UNCHANGED <<ans_head, ans_index, ans_commits, ans_base, other, tm_repo>>

-----------------------------------------------------------------------------
(* create, stage 2: create_and_apply_terraform_stack *)

\* the path argument of the stack-creation command, relative to its cwd
CreateTarget(h) == "stacks/accounts/aops_dev.487718497406/" \o h

\* if not stack_path.exists(): run(["terramate", "create", ...],
\* cwd=terramate_cloud_path); fs.stack is the existence of stack_path, which
\* the command brings about when the directory it creates is that one
TerramateCreate ==
    /\ pc = "c_tm_create"
    /\ IF fs.stack THEN pc' = "c_main_tf" /\ UNCHANGED <<cmds, fs>>
       ELSE \E rc \in ExitCodes :
              /\ Run("terramate create", CreateTarget(hostname), TRUE, rc, "c_main_tf")
              /\ fs' = IF rc = 0
                          /\ Resolve(terramate_cloud_path, CreateTarget(hostname))
                                = Components(stack_path)
                       THEN [fs EXCEPT !.stack = TRUE] ELSE fs
    /\ UNCHANGED <<inputs, files, git, visited, prompts, proc, locals, summary, play, hist>>

\* the text of test_instance.tf.template
TemplateText == "module \"instance\" { prefix = \"TERRAFORM_STACK_PREFIX_PLACEHOLDER\" }\n"

\* s.replace(pat, new)
RECURSIVE Replace(_, _, _)
Replace(s, pat, new) ==
    LET hits == {i \in 1..(Len(s) - Len(pat) + 1) : SubSeq(s, i, i + Len(pat) - 1) = pat}
    IN  IF hits = {} THEN s
        ELSE LET i == CHOOSE k \in hits : \A m \in hits : k <= m
             IN  SubSeq(s, 1, i - 1) \o new
                 \o Replace(SubSeq(s, i + Len(pat), Len(s)), pat, new)

\* src.read().replace("TERRAFORM_STACK_PREFIX_PLACEHOLDER", prefix)
CopyTemplate(p) == Replace(TemplateText, "TERRAFORM_STACK_PREFIX_PLACEHOLDER", p)

\* mutant: main.tf is written from the template whether or not it exists
NeedsTemplateAlways(main_tf) == TRUE

\* if not main_tf.exists()
NeedsTemplate(main_tf) == main_tf = Absent

\* if not main_tf.exists(): write it from the template; open(main_tf, "w")
\* raises when the stack directory does not exist
WriteMainTf ==
    /\ pc = "c_main_tf"
    /\ IF ~NeedsTemplate(fs.main_tf) THEN pc' = "c_tm_add" /\ UNCHANGED fs
       ELSE IF ~fs.stack THEN pc' = "except" /\ UNCHANGED fs
       ELSE /\ fs' = [fs EXCEPT !.main_tf = CopyTemplate(prefix)]
            /\ pc' = "c_tm_add"
    /\ UNCHANGED <<inputs, files, git, visited, cmds, prompts, proc, locals,
                   summary, play, hist>>

CreateGitAdd ==
    /\ pc = "c_tm_add"
    /\ \E rc \in ExitCodes :
         /\ Run("git add", ".", TRUE, rc, "c_tm_commit")
         /\ tm_repo' = IF rc = 0 THEN [tm_repo EXCEPT !.index = StackTree] ELSE tm_repo
    /\ UNCHANGED <<inputs, fs, files, ans_git, visited, prompts, proc, locals, summary,
                   play, hist>>

CreateGitCommit ==
    /\ pc = "c_tm_commit"
    /\ \E rc \in ExitCodes :
         /\ Run("git commit", "terramate-cloud", FALSE, rc, "c_tm_push")
         /\ tm_repo' = IF rc = 0 THEN [tm_repo EXCEPT !.head = tm_repo.index]
                        ELSE tm_repo
    /\ UNCHANGED <<inputs, fs, files, ans_git, visited, prompts, proc, locals, summary,
                   play, hist>>

CreateGitPush ==
    /\ pc = "c_tm_push"
    /\ \E rc \in ExitCodes :
         /\ Run("git push", "origin main", TRUE, rc, "c_tf_init")
         /\ tm_repo' = IF rc = 0 THEN [tm_repo EXCEPT !.remote = tm_repo.head]
                        ELSE tm_repo
    /\ UNCHANGED <<inputs, fs, files, ans_git, visited, prompts, proc, locals, summary,
                   play, hist>>

CreateTerraformInit ==
    /\ pc = "c_tf_init"
    /\ \E rc \in ExitCodes : Run("terraform init", "", TRUE, rc, "c_tf_apply")
    /\ UNCHANGED <<inputs, fs, files, git, visited, prompts, proc, locals, summary, play, hist>>

\* mutant: the flag is appended in every mode
ApplyArgsAlwaysApprove(c) == "-auto-approve"

\* terraform_apply_cmd = ["terraform", "apply"], with -auto-approve appended
\* when ci
ApplyArgs(c) == IF c THEN "-auto-approve" ELSE ""

TerraformApply ==
    /\ pc = "c_tf_apply"
    /\ \E rc \in ExitCodes :
         Run("terraform apply", ApplyArgs(ci), TRUE, rc, "prompt2")
    /\ UNCHANGED <<inputs, fs, files, git, visited, prompts, proc, locals, summary, play, hist>>

-----------------------------------------------------------------------------
(* create, stage 3: add_to_ansible_inventory -> InventoryManager.ensure_host *)

\* ensure_host lines 275-278: read_text / open raise when a file is missing,
\* add_email_for_host raises on an empty document; the inventory has been
\* rewritten by then
EnsureHostFiles ==
    /\ pc = "ensure_files"
    /\ IF ~fs.inv
       THEN pc' = "except" /\ UNCHANGED files
       ELSE /\ inventory_file' = EnsureInventory(inventory_file, hostname)
            /\ IF ~fs.em \/ AddEmailRaises(emails_file)
               THEN pc' = "except" /\ UNCHANGED emails_file
               ELSE /\ emails_file' = AddEmailForHost(emails_file, hostname, email)
                    /\ pc' = "ensure_add"
    /\ entry' = AtEntry
    /\ UNCHANGED <<inputs, fs, git, visited, cmds, prompts, proc, locals, summary, play, calls>>

EnsureGitAdd ==
    /\ pc = "ensure_add"
    /\ AnsGitAdd("ensure_commit")
    /\ UNCHANGED <<inputs, fs, files, visited, prompts, proc, locals, summary, play, hist>>

EnsureGitCommit ==
    /\ pc = "ensure_commit"
    /\ AnsGitCommit("ensure_push")
    /\ UNCHANGED <<inputs, fs, files, visited, prompts, proc, locals, summary, play, hist>>

EnsureGitPush ==
    /\ pc = "ensure_push"
    /\ AnsGitPush("ensure_return")
    /\ UNCHANGED <<inputs, fs, files, visited, prompts, proc, locals, summary, play, hist>>

\* ensure_host returns to add_to_ansible_inventory (or to its direct caller)
EnsureHostReturn ==
    /\ pc = "ensure_return"
    /\ calls' = Append(calls, AtReturn("ensure"))
    /\ pc' = IF kind = "unit" THEN "idle" ELSE "prompt3"
    /\ UNCHANGED <<inputs, fs, files, git, visited, cmds, prompts, proc, locals,
                   summary, play, entry>>

-----------------------------------------------------------------------------
(* create, stages 4 and 5: run_ansible, import_db *)

PlaybookInitial ==
    /\ pc = "c_playbook1"
    /\ \E rc \in ExitCodes :
         Run("ansible-playbook", "initial_setup.yml", TRUE, rc, "c_playbook2")
    /\ UNCHANGED <<inputs, fs, files, git, visited, prompts, proc, locals, summary, play, hist>>

PlaybookWeb ==
    /\ pc = "c_playbook2"
    /\ \E rc \in ExitCodes :
         Run("ansible-playbook", "web_setup.yml", TRUE, rc, "prompt4")
    /\ UNCHANGED <<inputs, fs, files, git, visited, prompts, proc, locals, summary, play, hist>>

ImportDb ==
    /\ pc = "c_import"
    /\ \E rc \in ExitCodes : Run("ssh-import-db.sh", hostname, TRUE, rc, "done")
    /\ UNCHANGED <<inputs, fs, files, git, visited, prompts, proc, locals, summary, play, hist>>

-----------------------------------------------------------------------------
(* destroy, stage 2: destroy_terraform_stack *)

\* mutant: the stage returns at once whether or not the stack exists
DestroyStackCheckSkips ==
    /\ pc = "d_stack_check"
    /\ pc' = "prompt2"
    /\ UNCHANGED <<inputs, fs, files, git, visited, cmds, prompts, proc, locals,
                   summary, play, hist>>

\* mutant: the stack is destroyed whether or not its directory exists
DestroyStackCheckProceeds ==
    /\ pc = "d_stack_check"
    /\ pc' = "d_tf_init"
    /\ UNCHANGED <<inputs, fs, files, git, visited, cmds, prompts, proc, locals,
                   summary, play, hist>>

\* if not stack_path.exists(): print and return False
DestroyStackCheck ==
    /\ pc = "d_stack_check"
    /\ pc' = IF fs.stack THEN "d_tf_init" ELSE "prompt2"
    /\ UNCHANGED <<inputs, fs, files, git, visited, cmds, prompts, proc, locals,
                   summary, play, hist>>

\* mutant: the directory is deleted after init, without destroying the stack
DestroyTerraformInitThenDelete ==
    /\ pc = "d_tf_init"
    /\ \E rc \in ExitCodes : Run("terraform init", "", TRUE, rc, "d_rmtree")
    /\ UNCHANGED <<inputs, fs, files, git, visited, prompts, proc, locals, summary, play, hist>>

DestroyTerraformInit ==
    /\ pc = "d_tf_init"
    /\ \E rc \in ExitCodes : Run("terraform init", "", TRUE, rc, "d_tf_destroy")
    /\ UNCHANGED <<inputs, fs, files, git, visited, prompts, proc, locals, summary, play, hist>>

TerraformDestroy ==
    /\ pc = "d_tf_destroy"
    /\ \E rc \in ExitCodes :
         Run("terraform destroy", "-auto-approve", TRUE, rc, "d_rmtree")
    /\ UNCHANGED <<inputs, fs, files, git, visited, prompts, proc, locals, summary, play, hist>>

\* shutil.rmtree(stack_path)
RemoveStackDir ==
    /\ pc = "d_rmtree"
    /\ fs' = [fs EXCEPT !.stack = FALSE, !.main_tf = Absent]
    /\ pc' = "d_tm_add"
    /\ UNCHANGED <<inputs, files, git, visited, cmds, prompts, proc, locals,
                   summary, play, hist>>

DestroyGitAdd ==
    /\ pc = "d_tm_add"
    /\ \E rc \in ExitCodes :
         /\ Run("git add", ".", TRUE, rc, "d_tm_commit")
         /\ tm_repo' = IF rc = 0 THEN [tm_repo EXCEPT !.index = StackTree] ELSE tm_repo
    /\ UNCHANGED <<inputs, fs, files, ans_git, visited, prompts, proc, locals, summary,
                   play, hist>>

DestroyGitCommit ==
    /\ pc = "d_tm_commit"
    /\ \E rc \in ExitCodes :
         /\ Run("git commit", "terramate-cloud", FALSE, rc, "d_tm_push")
         /\ tm_repo' = IF rc = 0 THEN [tm_repo EXCEPT !.head = tm_repo.index]
                        ELSE tm_repo
    /\ UNCHANGED <<inputs, fs, files, ans_git, visited, prompts, proc, locals, summary,
                   play, hist>>

DestroyGitPush ==
    /\ pc = "d_tm_push"
    /\ \E rc \in ExitCodes :
         /\ Run("git push", "origin main", TRUE, rc, "prompt2")
         /\ tm_repo' = IF rc = 0 THEN [tm_repo EXCEPT !.remote = tm_repo.head]
                        ELSE tm_repo
    /\ UNCHANGED <<inputs, fs, files, ans_git, visited, prompts, proc, locals, summary,
                   play, hist>>

-----------------------------------------------------------------------------
(* destroy, stage 3: remove_from_ansible_inventory -> remove_host *)

\* subprocess.run(["yq", "eval", ... has ...], capture_output=True, check=False):
\* invoked outside run(), its output goes to the caller only
Query(name, arg, rc) == Append(cmds, Cmd(name, arg, rc, FALSE, FALSE))

\* run(["yq", "eval", "del(...)", "-i", file], log_file=None, ...)
Delete(name, arg, rc) == Append(cmds, Cmd(name, arg, rc, TRUE, FALSE))

\* remove_host_from_inventory up to the test of the query's output
RemoveInventoryQuery ==
    /\ pc = "rm_inv"
    /\ inv_removed' = FALSE
    /\ IF ~fs.inv THEN pc' = "rm_em" /\ UNCHANGED cmds
       ELSE \E rc \in ExitCodes :
              /\ cmds' = Query("yq has", "inventory.yml", rc)
              /\ pc' = IF rc = 0 /\ YqHasHost(inventory_file, hostname)
                       THEN "rm_inv_del" ELSE "rm_em"
    /\ entry' = AtEntry
    /\ UNCHANGED <<inputs, fs, files, git, visited, prompts, proc, em_removed,
                   remove_result, summary, play, calls>>

\* remove_host_from_inventory: the in-place deletion, return True
RemoveInventoryDelete ==
    /\ pc = "rm_inv_del"
    /\ \E rc \in ExitCodes :
         /\ cmds' = Delete("yq del", "inventory.yml", rc)
         /\ inventory_file' = IF rc = 0 THEN YqDelHost(inventory_file, hostname)
                              ELSE inventory_file
         /\ inv_removed' = ~Raises(TRUE, rc)
         /\ pc' = IF Raises(TRUE, rc) THEN "except" ELSE "rm_em"
    /\ UNCHANGED <<inputs, fs, emails_file, git, visited, prompts, proc, em_removed,
                   remove_result, summary, play, hist>>

\* remove_email_for_host up to the test of the query's output
RemoveEmailQuery ==
    /\ pc = "rm_em"
    /\ em_removed' = FALSE
    /\ IF ~fs.em THEN pc' = "rm_check" /\ UNCHANGED cmds
       ELSE \E rc \in ExitCodes :
              /\ cmds' = Query("yq has", "emails.yml", rc)
              /\ pc' = IF rc = 0 /\ YqHasEmail(emails_file, hostname)
                       THEN "rm_em_del" ELSE "rm_check"
    /\ UNCHANGED <<inputs, fs, files, git, visited, prompts, proc, inv_removed,
                   remove_result, summary, play, hist>>

\* remove_email_for_host: the in-place deletion, return True
RemoveEmailDelete ==
    /\ pc = "rm_em_del"
    /\ \E rc \in ExitCodes :
         /\ cmds' = Delete("yq del", "emails.yml", rc)
         /\ emails_file' = IF rc = 0 THEN YqDelEmail(emails_file, hostname)
                           ELSE emails_file
         /\ em_removed' = ~Raises(TRUE, rc)
         /\ pc' = IF Raises(TRUE, rc) THEN "except" ELSE "rm_check"
    /\ UNCHANGED <<inputs, fs, inventory_file, git, visited, prompts, proc,
                   inv_removed, remove_result, summary, play, hist>>

\* mutant: only a removal from the host list triggers the commit
ShouldCommitInventoryOnly(ir, er) == ir

\* remove_host line 251: if inventory_removed or emails_removed
ShouldCommit(ir, er) == ir \/ er

RemoveCommitCheck ==
    /\ pc = "rm_check"
    /\ pc' = IF ShouldCommit(inv_removed, em_removed) THEN "rm_add" ELSE "rm_return"
    /\ UNCHANGED <<inputs, fs, files, git, visited, cmds, prompts, proc, locals,
                   summary, play, hist>>

RemoveGitAdd ==
    /\ pc = "rm_add"
    /\ AnsGitAdd("rm_commit")
    /\ UNCHANGED <<inputs, fs, files, visited, prompts, proc, locals, summary, play, hist>>

RemoveGitCommit ==
    /\ pc = "rm_commit"
    /\ AnsGitCommit("rm_push")
    /\ UNCHANGED <<inputs, fs, files, visited, prompts, proc, locals, summary, play, hist>>

RemoveGitPush ==
    /\ pc = "rm_push"
    /\ AnsGitPush("rm_return")
    /\ UNCHANGED <<inputs, fs, files, visited, prompts, proc, locals, summary, play, hist>>

\* remove_host has no return statement: whatever was removed, it returns None
RemoveHostResult(ir, er) == "None"

RemoveHostReturn ==
    /\ pc = "rm_return"
    /\ remove_result' = RemoveHostResult(inv_removed, em_removed)
    /\ calls' = Append(calls, AtReturn("remove"))
    /\ pc' = IF kind = "unit" THEN "idle" ELSE "d_summary"
    /\ UNCHANGED <<inputs, fs, files, git, visited, cmds, prompts, proc, inv_removed,
                   em_removed, summary, play, entry>>

\* the end message of remove_from_ansible_inventory's dimmed_timed_step: built
\* from the keyword arguments only, and skipped in debug mode
RemoveSummary(result, h) == "Removed " \o h \o " from inventory and emails.yml"

RemoveFromInventoryDone ==
    /\ pc = "d_summary"
    /\ summary' = IF debug THEN summary
                  ELSE Append(summary, RemoveSummary(remove_result, hostname))
    /\ pc' = "done"
    /\ UNCHANGED <<inputs, fs, files, git, visited, cmds, prompts, proc, locals,
                   play, hist>>

-----------------------------------------------------------------------------
(* the end of main() *)

\* all stages returned: the success message
Done ==
    /\ pc = "done"
    /\ visited' = Append(visited, "DONE")
    /\ pc' = "which_play"
    /\ UNCHANGED <<inputs, fs, files, git, cmds, prompts, proc, locals, summary, play, hist>>

\* shutil.which("play"): the path of the playback tool, or None
PlayPath == "/usr/bin/play"
NoPlay == "None"

\* if shutil.which("play")
WhichPlay ==
    /\ pc = "which_play"
    /\ play' \in {PlayPath, NoPlay}
    /\ pc' = IF play' # NoPlay THEN "play1" ELSE "finish"
    /\ UNCHANGED <<inputs, fs, files, git, visited, cmds, prompts, proc, locals,
                   summary, hist>>

PlayPcs == {"play1", "play2", "play3"}

AfterPlay(p) ==
    CASE p = "play1" -> "play2" [] p = "play2" -> "play3" [] p = "play3" -> "finish"

\* for freq in (880, 990, 1100), reversed on destroy
PlayFreq(k, p) ==
    CASE p = "play2" -> "990"
      [] p = "play1" -> IF k = "create" THEN "880" ELSE "1100"
      [] p = "play3" -> IF k = "create" THEN "1100" ELSE "880"

\* mutant: the tones are played with failure-checking on
PlayToneChecked ==
    /\ pc \in PlayPcs
    /\ \E rc \in ExitCodes : Run("play", PlayFreq(kind, pc), TRUE, rc, AfterPlay(pc))
    /\ UNCHANGED <<inputs, fs, files, git, visited, prompts, proc, locals, summary,
                   play, hist>>

\* run(["play", ...], check=False, ...): one tone of the audible cue
PlayTone ==
    /\ pc \in PlayPcs
    /\ \E rc \in ExitCodes : Run("play", PlayFreq(kind, pc), FALSE, rc, AfterPlay(pc))
    /\ UNCHANGED <<inputs, fs, files, git, visited, prompts, proc, locals, summary, play, hist>>

CloseLog == IF log_state = "open" THEN "closed" ELSE log_state

\* the try block ended normally: finally closes the log, the process exits 0
Finish ==
    /\ pc = "finish"
    /\ log_state' = CloseLog
    /\ exited' = TRUE
    /\ exit_status' = 0
    /\ pc' = "exited"
    /\ UNCHANGED <<inputs, fs, files, git, visited, cmds, prompts, locals, summary, play, hist>>

\* mutant: the handler reports the error and exits with status 0
HandleExceptionExitsZero ==
    /\ pc = "except"
    /\ visited' = Append(visited, "FAILED")
    /\ log_state' = CloseLog
    /\ exited' = TRUE
    /\ exit_status' = 0
    /\ pc' = "exited"
    /\ UNCHANGED <<inputs, fs, files, git, cmds, prompts, locals, summary, play, hist>>

\* except Exception: print the error, sys.exit(1); finally closes the log
HandleException ==
    /\ pc = "except"
    /\ visited' = Append(visited, "FAILED")
    /\ log_state' = CloseLog
    /\ exited' = TRUE
    /\ exit_status' = 1
    /\ pc' = "exited"
    /\ UNCHANGED <<inputs, fs, files, git, cmds, prompts, locals, summary, play, hist>>

-----------------------------------------------------------------------------
(* The two pipelines *)

Next ==
    \/ MainCreate \/ MainDestroy
    \/ CloneTerramate \/ CloneAnsible \/ CheckoutAnsible
    \/ PromptToContinue \/ PrintStepHeader
    \/ TerramateCreate \/ WriteMainTf \/ CreateGitAdd \/ CreateGitCommit
    \/ CreateGitPush \/ CreateTerraformInit \/ TerraformApply
    \/ EnsureHostFiles \/ EnsureGitAdd \/ EnsureGitCommit \/ EnsureGitPush
    \/ EnsureHostReturn
    \/ PlaybookInitial \/ PlaybookWeb \/ ImportDb
    \/ DestroyStackCheck \/ DestroyTerraformInit \/ TerraformDestroy
    \/ RemoveStackDir \/ DestroyGitAdd \/ DestroyGitCommit \/ DestroyGitPush
    \/ RemoveInventoryQuery \/ RemoveInventoryDelete
    \/ RemoveEmailQuery \/ RemoveEmailDelete \/ RemoveCommitCheck
    \/ RemoveGitAdd \/ RemoveGitCommit \/ RemoveGitPush
    \/ RemoveHostReturn \/ RemoveFromInventoryDone
    \/ Done \/ WhichPlay \/ PlayTone \/ Finish \/ HandleException

Spec == Init /\ [][Next]_vars

-----------------------------------------------------------------------------
(* InventoryManager called directly, several times on the same workspace *)

UnitHost == FullHostname("a")

UnitInventories ==
    { InvWithout,
      InvWith(UnitHost),
      "hosts:\n",
      InvNoHosts,
      "all:\n  hosts:\n    xa.aopstest.com:\n",
      "all:\n  hosts:",
      "all:\n  children:\n    web:\n      hosts:\n        " \o OtherHost
          \o ":\n  hosts:\n    " \o OtherHost \o ":\n",
      "all:\n  hosts:\n    a.aopstest.com:\n" }

UnitEmails ==
    { EmailsWithout,
      EmailsWith(UnitHost),
      [empty |-> TRUE, he_kind |-> "absent", host_emails |-> << >>],
      [empty |-> FALSE, he_kind |-> "absent", host_emails |-> << >>],
      [empty |-> FALSE, he_kind |-> "null", host_emails |-> << >>],
      [empty |-> FALSE, he_kind |-> "map",
       host_emails |-> << [host |-> UnitHost, email |-> "old@x.com"] >>] }

InitUnit ==
    /\ kind = "unit"
    /\ branch_env = NoValue
    /\ prefix = "a"
    /\ ci = TRUE
    /\ debug = FALSE
    /\ token = NoValue
    /\ email = DEFAULT_EMAIL
    /\ fs \in {f \in FsStates : f.tm /\ f.ans /\ ~f.stack}
    /\ fs_start = fs
    /\ tm_env = TmEnvPath
    /\ inventory_file \in (IF fs.inv THEN UnitInventories ELSE {""})
    /\ emails_file \in (IF fs.em THEN UnitEmails
                        ELSE {[empty |-> TRUE, he_kind |-> "absent",
                               host_emails |-> << >>]})
    /\ ans_head = [inv |-> inventory_file, em |-> emails_file]
    /\ ans_index = ans_head
    /\ ans_commits = 0
    /\ remote = History0
    /\ ans_base = (IF fs.ans THEN remote ELSE << >>)
    /\ other = NoOther
    /\ tm_repo = [index |-> StackTree, head |-> StackTree, remote |-> StackTree]
    /\ pc = "idle"
    /\ visited = << "INIT" >>
    /\ cmds = << >>
    /\ log_state = "none"
    /\ prompts = 0
    /\ exited = FALSE
    /\ exit_status = 0
    /\ inv_removed = FALSE
    /\ em_removed = FALSE
    /\ remove_result = "unset"
    /\ summary = << >>
    /\ play = "unset"
    /\ entry = AtEntry
    /\ calls = << >>

\* add_to_ansible_inventory: inventory_mgr.ensure_host(...)
CallEnsureHost ==
    /\ kind = "unit" /\ pc = "idle" /\ Len(calls) < MaxCalls
    /\ pc' = "ensure_files"
    /\ UNCHANGED <<inputs, fs, files, git, visited, cmds, prompts, proc, locals,
                   summary, play, hist>>

\* remove_from_ansible_inventory: inventory_mgr.remove_host(...)
CallRemoveHost ==
    /\ kind = "unit" /\ pc = "idle" /\ Len(calls) < MaxCalls
    /\ pc' = "rm_inv"
    /\ UNCHANGED <<inputs, fs, files, git, visited, cmds, prompts, proc, locals,
                   summary, play, hist>>

NextUnit ==
    \/ CallEnsureHost \/ CallRemoveHost
    \/ EnsureHostFiles \/ EnsureGitAdd \/ EnsureGitCommit \/ EnsureGitPush
    \/ EnsureHostReturn
    \/ RemoveInventoryQuery \/ RemoveInventoryDelete
    \/ RemoveEmailQuery \/ RemoveEmailDelete \/ RemoveCommitCheck
    \/ RemoveGitAdd \/ RemoveGitCommit \/ RemoveGitPush
    \/ RemoveHostReturn

SpecUnit == InitUnit /\ [][NextUnit]_vars

-----------------------------------------------------------------------------
(* Two runs at the same time against the same configuration-management     *)
(* remote.  The second run is the same program working on another host; it *)
(* is followed only where it meets the remote: its clone of the ansible    *)
(* repository and its push of one commit to branch simple.                 *)

InitRace ==
    /\ Start([pc |-> "start", base |-> << >>, first |-> FALSE], {NoValue})
    /\ prefix = "a" /\ ci /\ ~debug /\ (kind = "destroy" => ~EnvMissing(token))
    /\ fs.tm /\ ~fs.ans /\ fs.main_tf = Absent
    /\ inventory_file # InvNoHosts

\* the second run: clone_ansible_repo
OtherClone ==
    /\ other.pc = "start"
    /\ other' = [other EXCEPT !.pc = "cloned", !.base = remote]
    /\ UNCHANGED <<inputs, fs, files, ans_head, ans_index, ans_commits, ans_base,
                   tm_repo, remote, pc, visited, cmds, prompts, proc, locals, summary,
                   play, hist>>

\* the second run: git push origin simple, with the one commit it made;
\* first: this run had not pushed to the branch by then
OtherPush ==
    /\ other.pc = "cloned"
    /\ LET branch == Append(other.base, Commit(2, 1))
           first == \A i \in 1..Len(cmds) :
                        ~(cmds[i].name = "git push" /\ cmds[i].arg = "origin simple")
       IN  /\ other' = [other EXCEPT
                           !.pc = IF PushRejected(branch) THEN "rejected" ELSE "pushed",
                           !.first = first]
           /\ remote' = IF PushRejected(branch) THEN remote ELSE branch
    /\ UNCHANGED <<inputs, fs, files, ans_head, ans_index, ans_commits, ans_base,
                   tm_repo, pc, visited, cmds, prompts, proc, locals, summary, play, hist>>

NextRace == Next \/ OtherClone \/ OtherPush

SpecRace == InitRace /\ [][NextRace]_vars

-----------------------------------------------------------------------------
(* The two pipelines over the values of ANSIBLE_CFG_BRANCH *)

\* not set, set to the default's name, set to another branch
BranchValues == {NoValue, "simple", "dev"}

InitBranch ==
    /\ Start(NoOther, BranchValues)
    /\ prefix = "a" /\ ci /\ ~debug /\ (kind = "destroy" => ~EnvMissing(token))
    /\ fs.tm /\ fs.main_tf = Absent
    /\ (kind = "create") <=> (inventory_file = InvWithout)
    /\ (kind = "create") <=> (emails_file = EmailsWithout)

SpecBranch == InitBranch /\ [][Next]_vars

-----------------------------------------------------------------------------
(* Vocabulary of the properties *)

\* the numbered stages a run entered, without the closing FAILED
StagesOf(v) == IF v[Len(v)] = "FAILED" THEN SubSeq(v, 1, Len(v) - 1) ELSE v

Entered(s) == \E i \in 1..Len(visited) : visited[i] = s

CreateOrder ==
    << "INIT", "CLONE_REPOS", "STACK_CREATE_APPLY", "INVENTORY_UPDATE",
       "CONFIG_MANAGEMENT_RUN", "DATA_BOOTSTRAP", "DONE" >>

DestroyOrder ==
    << "INIT", "CLONE_REPOS", "STACK_DESTROY", "INVENTORY_CLEANUP", "DONE" >>

\* command i was run with failure-checking and exited non-zero
FailedAt(i) == cmds[i].check /\ cmds[i].rc # 0

Succeeded(name, arg) ==
    \E i \in 1..Len(cmds) :
        cmds[i].name = name /\ cmds[i].arg = arg /\ cmds[i].rc = 0

\* the commands a returned InventoryManager call invoked
RangeOf(c) == (c.entry.at + 1)..c.upto

NamesIn(c) == [i \in 1..(c.upto - c.entry.at) |-> cmds[c.entry.at + i].name]

IsGit(name) == name \in {"git add", "git commit", "git push"}

GitIn(c) == SelectSeq(NamesIn(c), IsGit)

\* a startup check of the destroy script has refused the run
Refused ==
    kind = "destroy" /\ pc # "main" /\ (~PrefixValid(prefix) \/ EnvMissing(token))

-----------------------------------------------------------------------------
(* C1: in both pipelines, once a command run with failure-checking exits   *)
(* non-zero, no further command is invoked in that run: the failing        *)
(* command is the last entry of the command trace in every reachable state *)
C1_FailureStopsRun ==
    \A i \in 1..Len(cmds) : FailedAt(i) => i = Len(cmds)

\* the infra-apply command failed and the run is over
C1_Witness ==
    /\ kind = "create" /\ exited
    /\ cmds # << >>
    /\ cmds[Len(cmds)].name = "terraform apply" /\ cmds[Len(cmds)].rc # 0
    /\ ~Entered("INVENTORY_UPDATE")

(* C2: a provisioning run enters its stages in the fixed order, none       *)
(* skipped or repeated; a stage is entered only when the stage before it   *)
(* completed successfully, and DONE only after the data import exited 0    *)
CreateCompleted(s) ==
    CASE s = "INIT" -> TRUE
      [] s = "CLONE_REPOS" -> fs.tm /\ fs.ans
      [] s = "STACK_CREATE_APPLY" ->
            \E i \in 1..Len(cmds) : cmds[i].name = "terraform apply" /\ cmds[i].rc = 0
      [] s = "INVENTORY_UPDATE" ->
            /\ Succeeded("git push", "origin simple")
            /\ Len(calls) = 1 /\ calls[1].op = "ensure"
      [] s = "CONFIG_MANAGEMENT_RUN" ->
            /\ Succeeded("ansible-playbook", "initial_setup.yml")
            /\ Succeeded("ansible-playbook", "web_setup.yml")
      [] s = "DATA_BOOTSTRAP" -> Succeeded("ssh-import-db.sh", hostname)
      [] OTHER -> FALSE

C2_ProvisioningOrder ==
    kind = "create" =>
        LET st == StagesOf(visited)
        IN  /\ IsPrefixOf(st, CreateOrder)
            /\ \A k \in 2..Len(st) : CreateCompleted(st[k - 1])
            /\ \A i \in 1..Len(cmds) : cmds[i].rc # 0 /\ cmds[i].check
                  => stage \in {cmds[i].stage, "FAILED"}

C2_Witness == kind = "create" /\ stage = "DONE" /\ Len(visited) = Len(CreateOrder)

(* C3: a decommissioning run enters its stages in the fixed order;         *)
(* inventory cleanup starts only after the stack-destroy stage returned    *)
(* without failure, and DONE only after inventory cleanup returned         *)
C3_DecommissioningOrder ==
    kind = "destroy" =>
        LET st == StagesOf(visited)
        IN  /\ IsPrefixOf(st, DestroyOrder)
            /\ Entered("INVENTORY_CLEANUP") =>
                  /\ ~fs.stack
                  /\ \A i \in 1..Len(cmds) :
                        cmds[i].stage = "STACK_DESTROY" => ~FailedAt(i)
                  /\ \A i \in 1..Len(cmds) :
                        cmds[i].name = "terraform destroy" =>
                            Succeeded("git push", "origin main")
            /\ Entered("DONE") =>
                  /\ Len(calls) = 1 /\ calls[1].op = "remove"
                  /\ remove_result # "unset"

\* the stack was present, was destroyed, and the run went on to DONE
C3_Witness ==
    /\ kind = "destroy" /\ stage = "DONE"
    /\ \E i \in 1..Len(cmds) : cmds[i].name = "terraform destroy"

(* C4: the exit status is 0 exactly when the run reached DONE; a refused   *)
(* start or a failed step ends in FAILED with status 1; FAILED is the last *)
(* state a run enters                                                      *)
C4_ExitStatus ==
    /\ exited => exit_status \in {0, 1}
    /\ exited => (exit_status = 0 <=> Entered("DONE"))
    /\ (Refused \/ \E i \in 1..Len(cmds) : FailedAt(i)) =>
          /\ pc \in {"except", "exited"}
          /\ exited => stage = "FAILED" /\ exit_status = 1
    /\ \A i \in 1..Len(visited) : visited[i] = "FAILED" =>
          i = Len(visited) /\ exited /\ exit_status = 1 /\ pc = "exited"
    /\ ~(Entered("DONE") /\ Entered("FAILED"))

\* a rejected push ended the run with status 1
C4_Witness ==
    /\ exited /\ exit_status = 1 /\ stage = "FAILED"
    /\ cmds # << >> /\ cmds[Len(cmds)].name = "git push"

-----------------------------------------------------------------------------
(* Properties of InventoryManager, on its direct calls *)

\* a returned remove_host call took the host out of a file: it was a key of
\* the host list / of the contact mapping (as yq sees it) at entry, and is
\* not at return
RemovedFromInventory(c) == c.entry.listed /\ ~c.listed
RemovedFromContacts(c) == c.entry.mapped /\ ~c.mapped
Removed(c) == RemovedFromInventory(c) \/ RemovedFromContacts(c)

FilesUntouched(c) == c.inv = c.entry.inv /\ c.em = c.entry.em

\* the yq queries of a returned call all exited 0
QueriesRan(c) ==
    \A i \in RangeOf(c) : cmds[i].name = "yq has" => cmds[i].rc = 0

\* ensure_host found h in both files: in the text of the host list (the test
\* the code makes) and among the keys of host_emails
AlreadyInBoth(c) ==
    /\ c.op = "ensure"
    /\ Contains(c.entry.inv, hostname \o ":")
    /\ c.entry.em.he_kind = "map" /\ HasEntry(c.entry.em.host_emails, hostname)

\* nothing in the workspace differed from HEAD when the call was entered
CleanAtEntry(c) == c.entry.head = [inv |-> c.entry.inv, em |-> c.entry.em]

EnsurePcs == {"ensure_add", "ensure_commit", "ensure_push", "ensure_return"}

(* C5: when ensure_host(H,E) has returned and is called again, the second  *)
(* call leaves the host-list file and the contact-mapping file exactly as  *)
(* the first call left them                                                *)
C5_EnsureHostIdempotent ==
    /\ \A i \in 1..(Len(calls) - 1) :
          calls[i].op = "ensure" /\ calls[i + 1].op = "ensure" =>
              calls[i + 1].inv = calls[i].inv /\ calls[i + 1].em = calls[i].em
    /\ (calls # << >> /\ calls[Len(calls)].op = "ensure" /\ pc \in EnsurePcs) =>
          /\ inventory_file = calls[Len(calls)].inv
          /\ emails_file = calls[Len(calls)].em

\* the first call inserted the host into both files, the second returned
C5_Witness ==
    /\ Len(calls) = 2 /\ calls[1].op = "ensure" /\ calls[2].op = "ensure"
    /\ calls[1].inv # calls[1].entry.inv
    /\ calls[1].em # calls[1].entry.em

(* C6 as stated: a call of ensure_host that finds H in both files, and so  *)
(* changes neither, issues no git commit command                           *)
C6_NoCommitCommand ==
    \A k \in 1..Len(calls) :
        AlreadyInBoth(calls[k]) =>
            \A i \in RangeOf(calls[k]) : cmds[i].name # "git commit"

(* C6 as amended: such a call changes neither file and still runs git add, *)
(* git commit (failure-checking off) and git push; when the workspace had  *)
(* no uncommitted change at entry, the commit command finds nothing to     *)
(* commit, exits non-zero and records no commit                            *)
C6_NoCommitRecorded ==
    \A k \in 1..Len(calls) :
        LET c == calls[k]
        IN  AlreadyInBoth(c) =>
              /\ FilesUntouched(c)
              /\ GitIn(c) = << "git add", "git commit", "git push" >>
              /\ \A i \in RangeOf(c) : cmds[i].name = "git commit" => ~cmds[i].check
              /\ CleanAtEntry(c) =>
                    /\ c.commits = c.entry.commits
                    /\ \A i \in RangeOf(c) :
                          cmds[i].name = "git commit" => cmds[i].rc # 0

\* a second call on a clean workspace that already lists the host
C6_Witness ==
    /\ Len(calls) = 2 /\ AlreadyInBoth(calls[2]) /\ CleanAtEntry(calls[2])
    /\ calls[1].op = "ensure" /\ calls[1].commits = 1

(* C7: remove_host runs git add / commit / push exactly when it removed H  *)
(* from at least one file.  With H in neither file it runs no git command  *)
(* and changes no file; with H in the contact mapping only, it removes     *)
(* that entry, leaves the host list as it was, and commits and pushes      *)
C7_RemoveCommitsIffRemoved ==
    /\ \A k \in 1..Len(calls) :
          LET c == calls[k]
          IN  c.op = "remove" =>
                /\ Removed(c) => GitIn(c) = << "git add", "git commit", "git push" >>
                /\ ~Removed(c) => GitIn(c) = << >> /\ FilesUntouched(c)
                /\ (~c.entry.listed /\ ~c.entry.mapped) =>
                      GitIn(c) = << >> /\ FilesUntouched(c)
                /\ (~c.entry.listed /\ c.entry.mapped /\ QueriesRan(c)) =>
                      /\ RemovedFromContacts(c)
                      /\ c.inv = c.entry.inv
                      /\ GitIn(c) = << "git add", "git commit", "git push" >>
    /\ pc \in {"rm_add", "rm_commit", "rm_push"} =>
          \/ entry.listed /\ ~YqHasHost(inventory_file, hostname)
          \/ entry.mapped /\ ~YqHasEmail(emails_file, hostname)

\* H was in the contact mapping only; the entry was removed and pushed
C7_Witness ==
    \E k \in 1..Len(calls) :
        /\ calls[k].op = "remove"
        /\ ~Contains(calls[k].entry.inv, hostname)
        /\ RemovedFromContacts(calls[k])
        /\ GitIn(calls[k]) = << "git add", "git commit", "git push" >>

-----------------------------------------------------------------------------
(* Properties of the decommissioning pipeline *)

(* C8 as stated: remove_host returns True when it removed H from the host  *)
(* list or the contact mapping and False when H was in neither, and the    *)
(* summary of the inventory-cleanup step says which                        *)
C8_ReturnsWhetherRemoved ==
    \A k \in 1..Len(calls) :
        calls[k].op = "remove" =>
            /\ remove_result = (IF Removed(calls[k]) THEN "True" ELSE "False")
            /\ (~Removed(calls[k]) /\ summary # << >>) =>
                  summary[Len(summary)]
                      # "Removed " \o hostname \o " from inventory and emails.yml"

(* C9: a decommissioning run started with CLOUDFLARE_API_TOKEN unset exits *)
(* with status 1 having invoked no command and created no log file         *)
C9_TokenRequiredBeforeClone ==
    (kind = "destroy" /\ token = NoValue) =>
        /\ cmds = << >> /\ log_state = "none"
        /\ ~Entered("CLONE_REPOS")
        /\ pc \in {"main", "exited"}
        /\ pc # "main" => exited /\ exit_status = 1

\* the prefix was accepted and the missing token ended the run
C9_Witness ==
    kind = "destroy" /\ token = NoValue /\ PrefixValid(prefix) /\ exited

(* C10: a decommissioning run whose prefix holds a character other than a  *)
(* letter, digit, underscore or dash, or holds no letter or digit, exits   *)
(* with status 1 having invoked no command and touched no file             *)
Malformed(p) ==
    \/ \E i \in 1..Len(p) : Char(p, i) \notin AlnumChars \cup {"_", "-"}
    \/ \A i \in 1..Len(p) : Char(p, i) \notin AlnumChars

C10_PrefixValidatedFirst ==
    (kind = "destroy" /\ Malformed(prefix)) =>
        /\ cmds = << >> /\ log_state = "none"
        /\ ~Entered("CLONE_REPOS")
        /\ pc \in {"main", "exited"}
        /\ pc # "main" => exited /\ exit_status = 1

\* a prefix with a forbidden character was refused although the token is set
C10_Witness ==
    kind = "destroy" /\ prefix = "a!" /\ ~EnvMissing(token) /\ exited

-----------------------------------------------------------------------------
(* Properties of the provisioning pipeline *)

(* C11 as stated: a provisioning run started with a prefix that is not     *)
(* alphanumeric invokes no command at all (no clone, no infra-tool         *)
(* command, no git command)                                                *)
C11_CreatePrefixValidated ==
    (kind = "create" /\ ~IsAlnum(prefix)) => cmds = << >>

(* C12 as stated: for every prefix P the hostname is P followed by         *)
(* ".aopstest.com", the stack path is <workspace>/<base account path>/     *)
(* <hostname>, and the path given to the stack-creation command names the  *)
(* directory whose existence was tested                                    *)
C12_StackPathOfHostname ==
    (Entered("STACK_CREATE_APPLY") \/ Entered("STACK_DESTROY")) =>
        /\ hostname = prefix \o ".aopstest.com"
        /\ stack_path = terramate_cloud_path \o "/" \o DEFAULT_STACK_ACCOUNT_PATH
                            \o "/" \o hostname
        /\ \A i \in 1..Len(cmds) :
              cmds[i].name = "terramate create" =>
                  Resolve(terramate_cloud_path, cmds[i].arg) = Components(stack_path)

\* the same, for prefixes that do not begin with a slash
C12_StackPathOfRelativeHostname ==
    Char(prefix, 1) # "/" => C12_StackPathOfHostname

-----------------------------------------------------------------------------
(* Properties of the run log *)

\* the run log: the commands whose output was written to it, in the order
\* of their invocation (the file is only ever appended to)
LogOf(trace) == SelectSeq(trace, LAMBDA c : c.logged)

(* C13 as stated: in a run that is not in debug mode the output of every   *)
(* command the run invokes is in the log, in invocation order, the yq      *)
(* queries and deletions of the destroy path included                      *)
C13_LogHasEveryCommand ==
    (kind \in {"create", "destroy"} /\ ~debug) => LogOf(cmds) = cmds

\* the same, for the commands other than yq
C13_LogHasEveryOtherCommand ==
    (kind \in {"create", "destroy"} /\ ~debug) =>
        LogOf(cmds) = SelectSeq(cmds, LAMBDA c : c.name \notin {"yq has", "yq del"})

-----------------------------------------------------------------------------
(* Properties of the stages' steps *)

\* positions in the command trace of the invocations of a command
Where(name, arg) ==
    {i \in 1..Len(cmds) : cmds[i].name = name /\ cmds[i].arg = arg}

\* the run went past the clone stage
PastClone == Entered("STACK_CREATE_APPLY") \/ Entered("STACK_DESTROY")

\* the run has ended in FAILED with exit status 1, or is about to
Failing == pc = "except" \/ (exited /\ exit_status = 1 /\ stage = "FAILED")

(* C14: in the clone stage a workspace whose path existed at the start is  *)
(* neither cloned nor checked out; one that did not exist is cloned once;  *)
(* the branch checkout of the configuration-management workspace follows   *)
(* directly a clone of it that exited 0; a clone or checkout that exits    *)
(* non-zero is the last command of the run, which fails                    *)
C14_CloneStage ==
    kind \in {"create", "destroy"} =>
        LET tm == Where("git clone", "terramate-cloud")
            ans == Where("git clone", "ansible-cfg")
            co == Where("git checkout", ansible_cfg_branch)
        IN  /\ fs_start.tm => tm = {}
            /\ fs_start.ans => ans = {} /\ co = {}
            /\ Cardinality(tm) <= 1 /\ Cardinality(ans) <= 1 /\ Cardinality(co) <= 1
            /\ \A i \in co : i - 1 \in ans /\ cmds[i - 1].rc = 0
            /\ \A i \in tm \cup ans \cup co :
                  /\ cmds[i].stage = "CLONE_REPOS"
                  /\ cmds[i].rc # 0 => i = Len(cmds) /\ Failing
            /\ PastClone =>
                  /\ ~fs_start.tm => \E i \in tm : cmds[i].rc = 0
                  /\ ~fs_start.ans =>
                        \E i \in ans : cmds[i].rc = 0 /\ i + 1 \in co
                                       /\ cmds[i + 1].rc = 0

\* one workspace was there and was left alone, the other was cloned and
\* checked out, and the run went on
C14_Witness ==
    /\ PastClone /\ fs_start.tm /\ ~fs_start.ans
    /\ Where("git clone", "terramate-cloud") = {}
    /\ Where("git checkout", ansible_cfg_branch) # {}

\* create_and_apply got as far as staging the repository changes
StackStaged ==
    \E i \in Where("git add", ".") : cmds[i].stage = "STACK_CREATE_APPLY"

(* C15: in create_and_apply the stack-creation command is invoked exactly  *)
(* when the stack directory is absent, and main.tf is written from the     *)
(* template exactly when it is absent: an existing stack is not created    *)
(* again and an existing main.tf keeps its text                            *)
C15_CreateOnlyWhenAbsent ==
    kind = "create" =>
        LET made == {i \in 1..Len(cmds) : cmds[i].name = "terramate create"}
        IN  /\ fs_start.stack => made = {}
            /\ Cardinality(made) <= 1
            /\ (~fs_start.stack /\ Entered("STACK_CREATE_APPLY")
                  /\ pc # "c_tm_create") => made # {}
            /\ fs_start.main_tf # Absent => fs.main_tf = fs_start.main_tf
            /\ fs.main_tf \in {fs_start.main_tf, CopyTemplate(prefix)}
            /\ StackStaged =>
                  /\ fs.stack
                  /\ fs_start.main_tf = Absent => fs.main_tf = CopyTemplate(prefix)

\* the stack directory was there without a main.tf: nothing was created,
\* and the file was written from the template
C15_Witness ==
    /\ kind = "create" /\ StackStaged
    /\ fs_start.stack /\ fs_start.main_tf = Absent
    /\ fs.main_tf = "module \"instance\" { prefix = \"a\" }\n"

(* C16: in provisioning the infra apply command carries the auto-approve   *)
(* flag exactly when the run is in CI mode; an interactive run invokes it  *)
(* without the flag                                                        *)
C16_AutoApproveOnlyInCi ==
    kind = "create" =>
        \A i \in 1..Len(cmds) :
            cmds[i].name = "terraform apply" =>
                /\ (cmds[i].arg = "-auto-approve") <=> ci
                /\ ~ci => cmds[i].arg = "" /\ prompts >= 1

\* an interactive run applied the stack without the flag
C16_Witness ==
    /\ kind = "create" /\ ~ci
    /\ \E i \in 1..Len(cmds) :
          cmds[i].name = "terraform apply" /\ cmds[i].arg = "" /\ cmds[i].rc = 0

-----------------------------------------------------------------------------
(* Properties of the decommissioning stages *)

\* the commands a run invoked in a stage
InStage(s) == SelectSeq(cmds, LAMBDA c : c.stage = s)

\* the run left stage s for the next stage, not for FAILED
LeftFor(s, t) ==
    /\ stage = s => pc # "except"
    /\ \A k \in 1..(Len(visited) - 1) : visited[k] = s => visited[k + 1] = t

(* C17: with the stack directory absent the stack-destroy stage invokes no *)
(* command, deletes nothing and goes on to inventory cleanup without       *)
(* error; when the host is also in neither inventory file, the run makes   *)
(* no commit and no push, cannot fail after the clone stage, and ends in   *)
(* DONE with exit status 0                                                 *)
C17_AbsentStackIsSkipped ==
    (kind = "destroy" /\ ~fs_start.stack) =>
        /\ InStage("STACK_DESTROY") = << >>
        /\ fs.stack = fs_start.stack /\ fs.main_tf = fs_start.main_tf
        /\ LeftFor("STACK_DESTROY", "INVENTORY_CLEANUP")
        /\ (PastClone /\ ~entry.listed /\ ~entry.mapped) =>
              /\ \A i \in 1..Len(cmds) : ~IsGit(cmds[i].name)
              /\ ans_commits = 0
              /\ files = <<entry.inv, entry.em>>
              /\ ~Failing /\ ~Entered("FAILED")
              /\ exited => exit_status = 0 /\ Entered("DONE")

\* such a run has ended
C17_Witness ==
    /\ kind = "destroy" /\ ~fs_start.stack /\ ~entry.listed /\ ~entry.mapped
    /\ exited /\ exit_status = 0 /\ Entered("INVENTORY_CLEANUP")
    /\ Len(calls) = 1

\* the order of the commands of the stack-destroy stage
DestroyStackOrder ==
    << <<"terraform init", "">>, <<"terraform destroy", "-auto-approve">>,
       <<"git add", ".">>, <<"git commit", "terramate-cloud">>,
       <<"git push", "origin main">> >>

(* C18: with the stack directory present the stack-destroy stage runs      *)
(* init, destroy with auto-approve, the deletion of the directory, then    *)
(* git add, commit and push, in that order; the directory is deleted only  *)
(* after the destroy command exited 0 and before anything is staged; when  *)
(* init or destroy fails the directory is still there and nothing is       *)
(* staged, committed or pushed                                             *)
C18_StackDestroyOrder ==
    (kind = "destroy" /\ fs_start.stack) =>
        LET sd == InStage("STACK_DESTROY")
            ran == [i \in 1..Len(sd) |-> <<sd[i].name, sd[i].arg>>]
        IN  /\ IsPrefixOf(ran, DestroyStackOrder)
            /\ ~fs.stack <=> (pc # "d_rmtree" /\ Len(sd) >= 2 /\ sd[2].rc = 0)
            /\ ~fs.stack => sd[1].rc = 0 /\ fs.main_tf = Absent
            /\ Len(sd) >= 3 => ~fs.stack
            /\ (\E i \in 1..Len(sd) : i <= 2 /\ sd[i].rc # 0) =>
                  /\ fs.stack /\ fs.main_tf = fs_start.main_tf
                  /\ \A i \in 1..Len(cmds) : ~IsGit(cmds[i].name)
                  /\ Failing

\* the destroy command failed: the run is over and the directory is there
C18_Witness ==
    /\ kind = "destroy" /\ fs_start.stack /\ exited /\ fs.stack
    /\ \E i \in 1..Len(cmds) : cmds[i].name = "terraform destroy" /\ cmds[i].rc # 0

-----------------------------------------------------------------------------
(* Properties of run() in both pipelines *)

\* the commands that must succeed: add, push, clone, checkout, init, apply,
\* destroy, the playbook runs and the data import
MustSucceed ==
    {"git add", "git push", "git clone", "git checkout", "terraform init",
     "terraform apply", "terraform destroy", "ansible-playbook",
     "ssh-import-db.sh"}

\* the positions from which the next step is a push
PushPcs == {"c_tm_push", "d_tm_push", "ensure_push", "rm_push"}

(* C19: every git commit is run with failure-checking off: whatever its    *)
(* exit code the run does not fail there, and the next command is the      *)
(* push; every other command of the list fails the run when it exits       *)
(* non-zero                                                                *)
C19_CommitIsAdvisory ==
    \A i \in 1..Len(cmds) :
        /\ cmds[i].name = "git commit" =>
              /\ ~cmds[i].check
              /\ IF i < Len(cmds) THEN cmds[i + 1].name = "git push"
                 ELSE pc \in PushPcs
        /\ cmds[i].name \in MustSucceed =>
              /\ cmds[i].check
              /\ cmds[i].rc # 0 => i = Len(cmds) /\ Failing

\* a commit exited non-zero, the push was still invoked and succeeded
C19_Witness ==
    \E i \in 1..(Len(cmds) - 1) :
        /\ cmds[i].name = "git commit" /\ cmds[i].rc # 0
        /\ cmds[i + 1].name = "git push" /\ cmds[i + 1].rc = 0
        /\ Entered("DONE")

(* C20: a run log file exists exactly when the run is not in debug mode    *)
(* and has passed its start-up checks; in debug mode no log file is ever   *)
(* created and no command's output is given to a log; otherwise the log    *)
(* is open while the run goes on and closed once it has ended, in DONE or  *)
(* in FAILED                                                               *)
C20_LogFileLifecycle ==
    kind \in {"create", "destroy"} =>
        /\ log_state # "none" <=> (~debug /\ Entered("CLONE_REPOS"))
        /\ debug => log_state = "none" /\ \A i \in 1..Len(cmds) : ~cmds[i].logged
        /\ log_state = "closed" <=> (exited /\ ~debug /\ Entered("CLONE_REPOS"))
        /\ (exited /\ ~debug /\ Entered("CLONE_REPOS")) =>
              Entered("DONE") \/ Entered("FAILED")

\* a failed run that is not in debug mode has closed its log
C20_Witness ==
    /\ kind \in {"create", "destroy"} /\ ~debug
    /\ exited /\ stage = "FAILED" /\ cmds # << >> /\ log_state = "closed"

-----------------------------------------------------------------------------
(* Properties of the confirmation prompts and of the audible cue *)

\* the numbered stages (step headers) a run has entered
Numbered(v) ==
    SelectSeq(v, LAMBDA s : s \notin {"INIT", "DONE", "FAILED"})

(* C21: in interactive mode one confirmation prompt is answered between    *)
(* every two consecutive numbered stages and none after the last one (four *)
(* in a successful provisioning run, two in a successful decommissioning   *)
(* run); a stage after the first is entered only from an answered prompt;  *)
(* in CI mode no prompt ever occurs                                        *)
C21_PromptBetweenStages ==
    kind \in {"create", "destroy"} =>
        LET n == Len(Numbered(visited))
        IN  /\ ci => prompts = 0
            /\ ~ci => prompts = (IF pc \in HeaderPcs THEN n ELSE IF n = 0 THEN 0 ELSE n - 1)
            /\ pc \in HeaderPcs => n >= 1
            /\ (~ci /\ Entered("DONE")) =>
                  prompts = (IF kind = "create" THEN 4 ELSE 2)

\* an interactive provisioning run has ended in DONE after four prompts
C21_Witness ==
    /\ kind = "create" /\ ~ci /\ exited /\ exit_status = 0
    /\ prompts = 4 /\ Len(Numbered(visited)) = 5
\* the positions in the command trace of the tones of the audible cue
Tones == {i \in 1..Len(cmds) : cmds[i].name = "play"}

(* C22: a tone of the audible cue is played only after every numbered      *)
(* stage has succeeded and the success message is out, and only when the   *)
(* playback tool was found; it is run with failure-checking off, and       *)
(* whatever the tones' exit codes a run whose stages all succeeded does    *)
(* not fail: it exits with status 0                                        *)
C22_CueNeverAffectsExit ==
    kind \in {"create", "destroy"} =>
        LET tones == Tones
        IN  /\ tones # {} =>
                  /\ play = PlayPath
                  /\ Len(Numbered(visited)) = (IF kind = "create" THEN 5 ELSE 3)
                  /\ \A i \in tones : cmds[i].stage = "DONE" /\ ~cmds[i].check
                  /\ \A j \in 1..Len(cmds) : ~FailedAt(j)
                  /\ Cardinality(tones) <= 3
            /\ play # "unset" => Entered("DONE")
            /\ Entered("DONE") =>
                  /\ ~Failing /\ ~Entered("FAILED")
                  /\ exited => exit_status = 0

\* the three tones were played, each exited non-zero, and the run exited 0
C22_Witness ==
    /\ exited /\ exit_status = 0 /\ Cardinality(Tones) = 3
    /\ \A i \in Tones : cmds[i].rc # 0
-----------------------------------------------------------------------------
(* Properties of ensure_host on the host-list and the contact mapping *)

\* the lines of a text whose trimmed content is exactly "hosts:"
HostsLines(lines) == {i \in 1..Len(lines) : Strip(lines[i]) = "hosts:"}

FirstOf(S) == CHOOSE i \in S : \A j \in S : i <= j

\* a line without its line terminator
Chomp(line) ==
    IF line # "" /\ Char(line, Len(line)) = "\n"
    THEN SubSeq(line, 1, Len(line) - 1) ELSE line

\* `after` is `before` with one new line for h, indented two spaces past
\* line k, directly after line k, and every other line as it was
InsertedAfter(before, after, k, h) ==
    /\ Len(after) = Len(before) + 1
    /\ SubSeq(after, 1, k) = SubSeq(before, 1, k)
    /\ Chomp(after[k + 1]) = Spaces(LineIndent(before[k]) + 2) \o h \o ":"
    /\ SubSeq(after, k + 2, Len(after)) = SubSeq(before, k + 1, Len(before))

\* a returned ensure_host call found a "hosts:" line and not the hostname
InsertionCase(c) ==
    /\ c.op = "ensure"
    /\ HostsLines(SplitLines(c.entry.inv)) # {}
    /\ ~Contains(c.entry.inv, hostname)

(* C23 as stated: for every host-list content that has a line trimmed to   *)
(* "hosts:" and does not contain the hostname, ensure_host inserts a new,  *)
(* separate line directly after the first such line, made of that line's   *)
(* indentation plus two spaces and "<hostname>:", and leaves every other   *)
(* line as it was, also when "hosts:" is the last line of the file         *)
C23_InsertsSeparateLine ==
    \A n \in 1..Len(calls) :
        LET c == calls[n]
            before == SplitLines(c.entry.inv)
        IN  InsertionCase(c) =>
              InsertedAfter(before, SplitLines(c.inv),
                            FirstOf(HostsLines(before)), hostname)

\* the same, for files whose first "hosts:" line ends with a line terminator
C23_InsertsAfterTerminatedLine ==
    \A n \in 1..Len(calls) :
        LET c == calls[n]
            before == SplitLines(c.entry.inv)
        IN  (/\ InsertionCase(c)
             /\ LET l == before[FirstOf(HostsLines(before))]
                IN  Char(l, Len(l)) = "\n") =>
              InsertedAfter(before, SplitLines(c.inv),
                            FirstOf(HostsLines(before)), hostname)
\* the configuration-management stage is the next thing the run does
OnToConfigManagement ==
    pc \in {"prompt3", "hdr4"} \/ Entered("CONFIG_MANAGEMENT_RUN")

(* C24: in a provisioning run whose host-list file has no line trimmed to  *)
(* "hosts:", ensure_host leaves the host-list as it was and raises no      *)
(* error: the inventory stage can fail only through a git command, and     *)
(* once ensure_host has returned the run goes on to the configuration-     *)
(* management stage with the host not in the host-list                     *)
C24_NoHostsLineIsSilent ==
    (kind = "create" /\ ~entry.listed /\ HostsLines(SplitLines(entry.inv)) = {}) =>
        /\ inventory_file = entry.inv
        /\ ~Contains(inventory_file, hostname)
        /\ (stage = "INVENTORY_UPDATE" /\ pc = "except") =>
              cmds # << >> /\ FailedAt(Len(cmds)) /\ IsGit(cmds[Len(cmds)].name)
        /\ calls # << >> =>
              /\ calls[1].op = "ensure" /\ calls[1].inv = calls[1].entry.inv
              /\ Succeeded("git push", "origin simple")
              /\ OnToConfigManagement
        /\ Entered("CONFIG_MANAGEMENT_RUN") => calls # << >>

\* such a run has started the configuration-management stage
C24_Witness ==
    /\ kind = "create" /\ HostsLines(SplitLines(entry.inv)) = {}
    /\ stage = "CONFIG_MANAGEMENT_RUN" /\ Len(calls) = 1
    /\ ~Contains(inventory_file, hostname)
    /\ \E i \in 1..Len(cmds) : cmds[i].name = "ansible-playbook"
\* the entries of a contact mapping, as a set of host / email pairs
EntriesOf(ef) ==
    IF ef.he_kind = "map"
    THEN {ef.host_emails[i] : i \in 1..Len(ef.host_emails)} ELSE {}

EmailOf(ef, h) ==
    (CHOOSE x \in EntriesOf(ef) : x.host = h).email

(* C25: a returned ensure_host(H,E) call that found an entry for H in the  *)
(* host_emails mapping left the contact-mapping file exactly as it was,    *)
(* with the email H had even when it differs from E; one that found no     *)
(* entry (or no host_emails key) left a mapping that holds H -> E and      *)
(* every entry it held before, with the same value, and nothing else       *)
C25_ContactWrittenOnlyOnChange ==
    \A n \in 1..Len(calls) :
        LET c == calls[n]
            had == \E x \in EntriesOf(c.entry.em) : x.host = hostname
        IN  c.op = "ensure" =>
              /\ had => c.em = c.entry.em
                        /\ EmailOf(c.em, hostname) = EmailOf(c.entry.em, hostname)
              /\ ~had =>
                    /\ c.em.he_kind = "map" /\ ~c.em.empty
                    /\ EntriesOf(c.em) =
                          EntriesOf(c.entry.em)
                              \cup {[host |-> hostname, email |-> email]}
                    /\ Len(c.em.host_emails) = Len(c.entry.em.host_emails) + 1

\* H had another email than E, and the call returned with the file as it was
C25_Witness ==
    \E n \in 1..Len(calls) :
        /\ calls[n].op = "ensure"
        /\ \E x \in EntriesOf(calls[n].entry.em) :
              x.host = hostname /\ x.email # email
        /\ Len(calls[n].entry.em.host_emails) = 2
        /\ calls[n].em = calls[n].entry.em
-----------------------------------------------------------------------------
(* Properties of two runs racing on the configuration-management remote *)

\* this run's pushes to the configuration-management remote
CmPushes == Where("git push", "origin simple")

InRemote(c) == \E i \in 1..Len(remote) : remote[i] = c

\* both runs have cloned, and got the same commits from the remote
BothCloned ==
    fs.ans /\ other.pc \in {"cloned", "pushed", "rejected"} /\ other.base = ans_base

\* this run's push was accepted and carried a commit
PushedCommit ==
    ans_commits >= 1 /\ \E i \in CmPushes : cmds[i].rc = 0

(* C26: two runs that both cloned before either pushed.  The push that     *)
(* arrives after the other run's commit is on the remote is rejected: this *)
(* run's push then exits non-zero, and the other run's push is rejected    *)
(* when this run's commit got there first.  A rejected push is the last    *)
(* command of this run, which fails (FAILED, exit status 1) without        *)
(* entering a later stage; and the remote keeps its earlier history and    *)
(* every commit whose push it accepted                                     *)
C26_SecondPushRejected ==
    /\ BothCloned =>
          /\ (other.pc = "pushed" /\ other.first) =>
                \A i \in CmPushes : cmds[i].rc # 0
          /\ (PushedCommit /\ ~other.first) => other.pc # "pushed"
          /\ ~(PushedCommit /\ other.pc = "pushed")
    /\ \A i \in CmPushes :
          cmds[i].rc # 0 =>
              /\ i = Len(cmds) /\ Failing
              /\ ~Entered("CONFIG_MANAGEMENT_RUN") /\ ~Entered("DONE")
              /\ exited => exit_status = 1 /\ stage = "FAILED"
    /\ IsPrefixOf(History0, remote)
    /\ other.pc = "pushed" => InRemote(Commit(2, 1))
    /\ PushedCommit => \A n \in 1..ans_commits : InRemote(Commit(1, n))

\* both runs cloned the same history, the other run's push arrived first,
\* and this run, which had made a commit, was rejected and has failed
C26_Witness ==
    /\ BothCloned /\ other.pc = "pushed" /\ other.first
    /\ ans_commits = 1 /\ CmPushes # {}
    /\ exited /\ exit_status = 1 /\ stage = "FAILED"
    /\ remote = << Commit(0, 1), Commit(2, 1) >>

\* the other order: this run's commit arrived first, the other run's push
\* was rejected, and this run went on
C26_WitnessOtherOrder ==
    /\ BothCloned /\ PushedCommit /\ other.pc = "rejected"
    /\ Entered("DONE") /\ remote = << Commit(0, 1), Commit(1, 1) >>
-----------------------------------------------------------------------------
(* Properties of the stack definition in the infrastructure remote *)

\* a copy of the terramate repository holds the stack with its main.tf
HoldsStack(t) == t.stack /\ t.main_tf # Absent

\* positions of the init and apply commands of a provisioning run
Applies == {i \in 1..Len(cmds) : cmds[i].name = "terraform apply"}
InitsAndApplies ==
    {i \in 1..Len(cmds) : cmds[i].name \in {"terraform init", "terraform apply"}}

PushedMainBefore(i) ==
    \E j \in 1..(i - 1) :
        cmds[j].name = "git push" /\ cmds[j].arg = "origin main" /\ cmds[j].rc = 0

\* a failed apply ends the run before anything is added to the inventory
NoInventoryEntryAdded ==
    /\ calls = << >> /\ ~Entered("INVENTORY_UPDATE")
    /\ files = <<entry.inv, entry.em>>
    /\ ans_commits = 0

(* C27 as stated: in provisioning, init and apply are invoked only after   *)
(* the push to main exited zero; on every run in which apply is invoked    *)
(* the remote infrastructure repository holds the stack for the hostname;  *)
(* and when apply fails the stack stays in the remote while no inventory   *)
(* entry is added                                                          *)
C27_ApplyAfterStackPushed ==
    kind = "create" =>
        /\ \A i \in InitsAndApplies : PushedMainBefore(i)
        /\ Applies # {} => HoldsStack(tm_repo.remote)
        /\ (\E i \in Applies : cmds[i].rc # 0) =>
              HoldsStack(tm_repo.remote) /\ NoInventoryEntryAdded

\* the same, with the remote holding what the workspace has committed: the
\* stack, when the commit command of this run exited zero
C27_ApplyAfterPush ==
    kind = "create" =>
        /\ \A i \in InitsAndApplies : PushedMainBefore(i)
        /\ Applies # {} =>
              /\ tm_repo.remote = tm_repo.head
              /\ Succeeded("git commit", "terramate-cloud") =>
                    HoldsStack(tm_repo.remote)
        /\ (\E i \in Applies : cmds[i].rc # 0) => NoInventoryEntryAdded
\* a text has a line that is the key h, nested under a line trimmed to "hosts:"
KeyUnderHosts(text, h) ==
    LET lines == SplitLines(text)
    IN  \E i \in 1..Len(lines) :
            /\ Strip(lines[i]) = h \o ":"
            /\ Parent(lines, i) \in HostsLines(lines)

(* C28 as stated: after ensure_host(H,E) has returned on a host-list file  *)
(* that has a "hosts:" line, the host-list has a line that is the key      *)
(* "H:" nested under a "hosts:" line, whatever the file held before, also  *)
(* when it lists another host whose name ends with H                       *)
C28_HostListedAfterEnsure ==
    \A n \in 1..Len(calls) :
        LET c == calls[n]
        IN  (c.op = "ensure" /\ HostsLines(SplitLines(c.entry.inv)) # {}) =>
                KeyUnderHosts(c.inv, hostname)

\* the same, for files in which the text "H:" occurs only as that key, and
\* whose first "hosts:" line ends with a line terminator
C28_HostListedWhenTextAbsent ==
    \A n \in 1..Len(calls) :
        LET c == calls[n]
            before == SplitLines(c.entry.inv)
        IN  (/\ c.op = "ensure" /\ HostsLines(before) # {}
             /\ \/ KeyUnderHosts(c.entry.inv, hostname)
                \/ /\ ~Contains(c.entry.inv, hostname \o ":")
                   /\ LET l == before[FirstOf(HostsLines(before))]
                      IN  Char(l, Len(l)) = "\n") =>
                KeyUnderHosts(c.inv, hostname)
-----------------------------------------------------------------------------
(* Properties of the branch of the configuration-management workspace *)

\* the branches the clone stage checked out in the ansible workspace
CheckedOut ==
    {cmds[i].arg : i \in {j \in 1..Len(cmds) :
                            cmds[j].name = "git checkout" /\ cmds[j].rc = 0}}

\* this run's pushes of inventory changes
InventoryPushes ==
    {i \in 1..Len(cmds) :
        /\ cmds[i].name = "git push"
        /\ cmds[i].stage \in {"INVENTORY_UPDATE", "INVENTORY_CLEANUP"}}

(* C29 as stated: in both pipelines the branch to which inventory changes  *)
(* are pushed is the branch the clone stage checked out in the             *)
(* configuration-management workspace, for every value of                  *)
(* ANSIBLE_CFG_BRANCH                                                      *)
C29_PushesCheckedOutBranch ==
    \A i \in InventoryPushes :
        \A b \in CheckedOut : cmds[i].arg = "origin " \o b

\* the same, for runs in which ANSIBLE_CFG_BRANCH is not set or names the
\* branch "simple"
C29_PushesDefaultBranch ==
    branch_env \in {NoValue, "simple"} => C29_PushesCheckedOutBranch
-----------------------------------------------------------------------------
(* Properties of ensure_host followed by remove_host *)

\* call n is an ensure_host on a host list that has a "hosts:" line and not
\* the hostname, and call n + 1 a remove_host whose queries ran
RoundTrip(n) ==
    /\ calls[n].op = "ensure" /\ calls[n + 1].op = "remove"
    /\ HostsLines(SplitLines(calls[n].entry.inv)) # {}
    /\ ~Contains(calls[n].entry.inv, hostname)
    /\ QueriesRan(calls[n + 1])

\* the host is in neither file when the call returns
InNeither(c) ==
    /\ ~Contains(c.inv, hostname)
    /\ \A x \in EntriesOf(c.em) : x.host # hostname

\* the first "hosts:" line of a text is the hosts key of the top-level all
\* group, and ends with a line terminator
FirstHostsIsAllHosts(text) ==
    LET lines == SplitLines(text)
        k == FirstOf(HostsLines(lines))
        p == Parent(lines, k)
    IN  /\ p # 0 /\ LineKey(lines[p]) = "all" /\ Parent(lines, p) = 0
        /\ Char(lines[k], Len(lines[k])) = "\n"

(* C30 as stated: for every host-list file with a "hosts:" line and every  *)
(* hostname H not in it, after ensure_host(H,E) and then remove_host(H),   *)
(* H is in neither the host-list file nor the contact mapping: where       *)
(* ensure_host inserts H is where remove_host queries and deletes          *)
C30_CreateDestroyRoundTrip ==
    \A n \in 1..(Len(calls) - 1) :
        RoundTrip(n) => InNeither(calls[n + 1])

\* the same, for host lists whose first "hosts:" line is the hosts key of
\* the top-level all group
C30_RoundTripUnderAllHosts ==
    \A n \in 1..(Len(calls) - 1) :
        (RoundTrip(n) /\ FirstHostsIsAllHosts(calls[n].entry.inv)) =>
            InNeither(calls[n + 1])
====
